---- MODULE Spec2Model ----
(***************************************************************************)
(* ScamShield API server (server.js): the risk-scoring pipeline of         *)
(* ScamDetectorAI, the POST /api/v1/analyze handler around it and the      *)
(* POST /api/v1/report handler, which writes to the same collection.       *)
(*                                                                         *)
(* Units.  Sub-signal scores and confidences are hundredths (0.3 is 30),   *)
(* the composite risk is ten-thousandths (a score times a weight, both in  *)
(* hundredths; 1.0 is 10000), and time is hours.                           *)
(* Strings are the source's, without their accents.  Products of a score   *)
(* and a weight are exact here; the source computes them in floating       *)
(* point.                                                                  *)
(***************************************************************************)
EXTENDS Integers, Sequences, FiniteSets, TLC

(* ----------------------------- bounds ---------------------------------- *)
\* concurrent HTTP requests in flight over a run
NumReqs == 2
\* the clock stops advancing here (hours)
MaxNow == 30
\* the clock advances in steps of this many hours
TickHours == 13
\* report requests over a run
MaxReports == 1
\* job cards on the page the content script runs in
NumElements == 2
\* messages waiting for the background script's listener
MaxInbox == 2
\* calls of scanJobElement on one card (observer, scanExistingJobs, 'rescan')
MaxScans == 2
\* message handlers and saves of the extension running at the same time
NumTasks == 2
\* calls of the side panel's scanCurrentPage over a run
MaxClicks == 4

(* ------------------------- program constants --------------------------- *)
PatternIncrement == 30
UrgencyThreshold == 2
UrgencyIncrement == 20
GrammarThreshold == 3
GrammarIncrement == 15
WeightText == 30
WeightCompany == 25
WeightSalary == 20
WeightAI == 25
CompanyPenalty == 40
SalaryPenalty == 60
RiskCap == 10000
DefaultConfidence == 80
DefaultAIConfidence == 50
CacheTTLSeconds == 86400
DedupWindowMs == 24 * 60 * 60 * 1000
\* limits[plan].daily of authenticateUser
DailyLimitFree == 50
DailyLimitPro == 1000
\* how many stored analyses saveAnalysis and saveAnalysisResult keep
AnalysesLimit == 100
ResultsLimit == 1000
\* how many activities the side panel's feed keeps
ActivityLimit == 20
CacheTTL == CacheTTLSeconds \div 3600
DedupWindow == DedupWindowMs \div 3600000

Min(a, b) == IF a < b THEN a ELSE b

(* ----------------------------- postings -------------------------------- *)
\* A posting as it arrives in req.body.job.  An absent string field is "".
JobClerk ==
  [id |-> "", title |-> "Data Entry Clerk",
   description |-> "urgent hiring, immediate start",
   company |-> "Hiring Now LLC", salary |-> "$500/hour", location |-> "Remote"]
JobSenior ==
  [id |-> "", title |-> "Senior Software Engineer",
   description |-> "build backend services",
   company |-> "Acme Corp.", salary |-> "$130,000/year", location |-> "Austin"]
JobIntern ==
  [id |-> "job-42", title |-> "Intern",
   description |-> "asap asap asap your hired your hired recieve seperate",
   company |-> "", salary |-> "competitive", location |-> ""]
JobWfh ==
  [id |-> "", title |-> "Work From Home - Earn $3000/week, no experience needed!",
   description |-> "urgent, immediate start",
   company |-> "Globex", salary |-> "$900,000", location |-> ""]
\* the work-from-home posting with a generic employer and an hourly rate
JobWfhHourly ==
  [id |-> "", title |-> "Work From Home - Earn $3000/week, no experience needed!",
   description |-> "urgent, immediate start",
   company |-> "Hiring Now LLC", salary |-> "$50/hour", location |-> ""]
JobDirector ==
  [id |-> "", title |-> "Executive Director",
   description |-> "pay a training fee, then package forwarding, mystery shopper and envelope stuffing",
   company |-> "Staffing Solutions", salary |-> "400000 per year", location |-> ""]
JobAssistant ==
  [id |-> "", title |-> "Executive Assistant", description |-> "answer the phones",
   company |-> "initech.com", salary |-> "$150/hr", location |-> "Dallas"]
JobAccountant ==
  [id |-> "", title |-> "Accountant", description |-> "monthly closing",
   company |-> "Globex", salary |-> "$150/hr", location |-> ""]
JobVp ==
  [id |-> "", title |-> "VP of Sales", description |-> "grow the accounts",
   company |-> "Acme Corp.", salary |-> "$700000", location |-> ""]
JobJuniorManager ==
  [id |-> "", title |-> "Junior Manager", description |-> "run the night shift",
   company |-> "Globex", salary |-> "$150/hr", location |-> ""]
\* no description: rejected by the handler's validation
JobNoDescription ==
  [id |-> "", title |-> "Intern", description |-> "",
   company |-> "Acme Corp.", salary |-> "", location |-> ""]

\* no title
JobNoTitle ==
  [id |-> "job-9", title |-> "", description |-> "monthly closing",
   company |-> "Acme Corp.", salary |-> "", location |-> ""]
\* a body without job
NoJob == [missing |-> TRUE]

ValidJobs ==
  {JobClerk, JobSenior, JobIntern, JobWfh, JobWfhHourly, JobDirector,
   JobAssistant, JobAccountant, JobVp, JobJuniorManager}

(* --------------------- regular expressions, evaluated ------------------ *)
\* indices (1-based, as the flags label them) of this.suspiciousPatterns
\* that match `${title} ${description}`.toLowerCase()
SuspiciousPatternHits(job) ==
  CASE job.title = JobClerk.title /\ job.description = JobClerk.description -> <<3>>
    [] job.title = JobWfh.title /\ job.description = JobWfh.description -> <<1, 3>>
    [] job.title = JobDirector.title /\ job.description = JobDirector.description
         -> <<4, 6, 7, 8>>
    [] OTHER -> <<>>

\* (fullText.match(urgencyWords) || []).length
UrgencyMatches(job) ==
  CASE job.title = JobClerk.title /\ job.description = JobClerk.description -> 2
    [] job.title = JobWfh.title /\ job.description = JobWfh.description -> 2
    [] job.title = JobIntern.title /\ job.description = JobIntern.description -> 3
    [] OTHER -> 0

detectGrammarIssues(job) ==
  CASE job.title = JobIntern.title /\ job.description = JobIntern.description -> 4
    [] OTHER -> 0

isGenericCompanyName(name) == name \in {"Hiring Now LLC", "Staffing Solutions"}

hasLegitIndicators(name) == name \in {"Hiring Now LLC", "Acme Corp.", "initech.com"}

\* salaryText.match(/\d+/g) mapped through parseInt: a comma ends a number
SalaryNumbers(salaryText) ==
  CASE salaryText = "$500/hour" -> {500}
    [] salaryText = "$130,000/year" -> {130, 0}
    [] salaryText = "$900,000" -> {900, 0}
    [] salaryText = "$50/hour" -> {50}
    [] salaryText = "400000 per year" -> {400000}
    [] salaryText = "$150/hr" -> {150}
    [] salaryText = "$700000" -> {700000}
    [] OTHER -> {}

IsHourly(salaryText) == salaryText \in {"$500/hour", "$50/hour", "$150/hr"}

\* which of determineJobLevel's three expressions match title.toLowerCase()
\* (anywhere in it: "entry" in "Data Entry Clerk")
SeniorKeyword(title) ==
  title \in {"Senior Software Engineer", "Executive Director", "Junior Manager"}

EntryKeyword(title) ==
  title \in {"Data Entry Clerk", "Intern", "Executive Assistant", "Junior Manager"}

ExecutiveKeyword(title) ==
  title \in {"Executive Director", "Executive Assistant", "VP of Sales"}

\* the same three tests, tried in another order
determineJobLevelExecutiveFirst(title) ==
  IF ExecutiveKeyword(title) THEN "executive"
  ELSE IF EntryKeyword(title) THEN "entry-level"
  ELSE IF SeniorKeyword(title) THEN "senior"
  ELSE "mid-level"

determineJobLevel(title) ==
  IF SeniorKeyword(title) THEN "senior"
  ELSE IF EntryKeyword(title) THEN "entry-level"
  ELSE IF ExecutiveKeyword(title) THEN "executive"
  ELSE "mid-level"

salaryRangeMax(level) ==
  CASE level = "entry-level" -> 45000
    [] level = "mid-level" -> 85000
    [] level = "senior" -> 150000
    [] level = "executive" -> 300000

(* ----------------------------- analyzers ------------------------------- *)
PatternLabel(i) ==
  CASE i = 1 -> "Patron sospechoso 1" [] i = 2 -> "Patron sospechoso 2"
    [] i = 3 -> "Patron sospechoso 3" [] i = 4 -> "Patron sospechoso 4"
    [] i = 5 -> "Patron sospechoso 5" [] i = 6 -> "Patron sospechoso 6"
    [] i = 7 -> "Patron sospechoso 7" [] i = 8 -> "Patron sospechoso 8"
    [] i = 9 -> "Patron sospechoso 9" [] i = 10 -> "Patron sospechoso 10"

\* analyzeJobText without Math.min(suspiciousScore, 1)
analyzeJobTextUncapped(job) ==
  LET hits == SuspiciousPatternHits(job)
      urgencyMatches == UrgencyMatches(job)
      grammarIssues == detectGrammarIssues(job)
      urgent == urgencyMatches > UrgencyThreshold
      sloppy == grammarIssues > GrammarThreshold
  IN [score |-> PatternIncrement * Len(hits)
                + (IF urgent THEN UrgencyIncrement ELSE 0)
                + (IF sloppy THEN GrammarIncrement ELSE 0),
      matchedPatterns |->
        [i \in 1..Len(hits) |-> PatternLabel(hits[i])]
        \o (IF urgent THEN <<"Urgencia artificial excesiva">> ELSE <<>>)
        \o (IF sloppy THEN <<"Multiples errores gramaticales">> ELSE <<>>),
      urgencyScore |-> urgencyMatches * 10,
      grammarScore |-> grammarIssues * 5]

analyzeJobText(job) ==
  LET hits == SuspiciousPatternHits(job)
      urgencyMatches == UrgencyMatches(job)
      grammarIssues == detectGrammarIssues(job)
      urgent == urgencyMatches > UrgencyThreshold
      sloppy == grammarIssues > GrammarThreshold
      suspiciousScore == PatternIncrement * Len(hits)
                         + (IF urgent THEN UrgencyIncrement ELSE 0)
                         + (IF sloppy THEN GrammarIncrement ELSE 0)
  IN [score |-> Min(suspiciousScore, 100),
      matchedPatterns |->
        [i \in 1..Len(hits) |-> PatternLabel(hits[i])]
        \o (IF urgent THEN <<"Urgencia artificial excesiva">> ELSE <<>>)
        \o (IF sloppy THEN <<"Multiples errores gramaticales">> ELSE <<>>),
      urgencyScore |-> urgencyMatches * 10,
      grammarScore |-> grammarIssues * 5]

SetMax(S) == CHOOSE m \in S : \A n \in S : n <= m

\* analyzeSalary with the hourly test applied to every tier
analyzeSalaryAnyTier(salaryText, jobTitle) ==
  IF salaryText = "" THEN [realistic |-> TRUE, confidence |-> 50]
  ELSE IF SalaryNumbers(salaryText) = {} THEN [realistic |-> TRUE, confidence |-> 30]
  ELSE LET maxSalary == SetMax(SalaryNumbers(salaryText))
           jobLevel == determineJobLevel(jobTitle)
           isHourly == IsHourly(salaryText)
       IN IF isHourly /\ maxSalary > 100
          THEN [realistic |-> FALSE, confidence |-> 90,
                reason |-> "Salario por hora irrealista"]
          ELSE IF ~isHourly /\ maxSalary > salaryRangeMax(jobLevel) * 2
          THEN [realistic |-> FALSE, confidence |-> 80,
                reason |-> "Salario anual excesivo"]
          ELSE [realistic |-> TRUE, confidence |-> 70]

analyzeSalary(salaryText, jobTitle) ==
  IF salaryText = "" THEN [realistic |-> TRUE, confidence |-> 50]
  ELSE IF SalaryNumbers(salaryText) = {} THEN [realistic |-> TRUE, confidence |-> 30]
  ELSE LET maxSalary == SetMax(SalaryNumbers(salaryText))
           jobLevel == determineJobLevel(jobTitle)
           isHourly == IsHourly(salaryText)
       IN IF isHourly /\ maxSalary > 100 /\ jobLevel = "entry-level"
          THEN [realistic |-> FALSE, confidence |-> 90,
                reason |-> "Salario por hora irrealista"]
          ELSE IF ~isHourly /\ maxSalary > salaryRangeMax(jobLevel) * 2
          THEN [realistic |-> FALSE, confidence |-> 80,
                reason |-> "Salario anual excesivo"]
          ELSE [realistic |-> TRUE, confidence |-> 70]

\* a verdict that trusts the legitimacy indicators alone
CompanyVerdictByIndicators(companyName) ==
  [verified |-> hasLegitIndicators(companyName),
   confidence |-> IF hasLegitIndicators(companyName) THEN 70 ELSE 30,
   isGeneric |-> isGenericCompanyName(companyName)]

\* the verdict verifyCompany computes on a cache miss
CompanyVerdict(companyName) ==
  [verified |-> ~isGenericCompanyName(companyName) /\ hasLegitIndicators(companyName),
   confidence |-> IF hasLegitIndicators(companyName) THEN 70 ELSE 30,
   isGeneric |-> isGenericCompanyName(companyName)]

\* verifyCompany's catch branch
CompanyError(message) == [verified |-> FALSE, confidence |-> 0, error |-> message]

\* verifyCompany's early return for a falsy name
CompanyAbsent == [verified |-> FALSE, confidence |-> 0]

(* ------------------- external classifier adapter ----------------------- *)
\* JavaScript values of the fields of the classifier's JSON payload
Undefined == [t |-> "undefined"]
Num(n) == [t |-> "number", v |-> n]
Str(s) == [t |-> "string", v |-> s]
\* a JSON object such as {"toString": null}: truthy, and converting it to a
\* string throws a TypeError; NoToString stands for it where a field holds it
NoToString == "{toString: null}"
Obj == [t |-> "object", v |-> NoToString]
ToStringThrows(v) == v = NoToString

\* the operand test of JavaScript's ||
Truthy(x) ==
  /\ x.t # "undefined"
  /\ ~(x.t = "number" /\ x.v = 0)
  /\ ~(x.t = "string" /\ x.v = "")

OrElse(x, d) == IF Truthy(x) THEN x.v ELSE d

\* What `await openai.chat.completions.create(...)` can produce:
\*   reject     the call rejects (transport error)
\*   noChoices  a completion without choices[0].message
\*   text       a completion whose content is not JSON ("" included)
\*   null       content "null"
\*   scalar     content is JSON but no object, e.g. "5": every field undefined
\*   object     content is a JSON object with the fields given
Reject(msg) == [kind |-> "reject", message |-> msg]
NoChoices == [kind |-> "noChoices"]
Text(s) == [kind |-> "text", content |-> s]
JsonNull == [kind |-> "null"]
JsonScalar == [kind |-> "scalar"]
JsonObject(r, c, s) == [kind |-> "object", riskScore |-> r, confidence |-> c, reasoning |-> s]

AIError(msg) ==
  [riskScore |-> 0, confidence |-> 0, reasoning |-> "Error en analisis IA", error |-> msg]

AIResult(r, c, s) ==
  [riskScore |-> OrElse(r, 0), confidence |-> OrElse(c, DefaultAIConfidence),
   reasoning |-> OrElse(s, ""), model |-> "gpt-3.5-turbo"]

Thrown(msg) == [thrown |-> TRUE, message |-> msg]
Returned(v) == [thrown |-> FALSE, value |-> v]

\* the try block of performAIAnalysis: the awaited call, choices[0].message
\* .content, JSON.parse, the reads of the three fields
AITry(completion) ==
  CASE completion.kind = "reject" -> Thrown(completion.message)
    [] completion.kind = "noChoices" -> Thrown("TypeError: choices[0] is undefined")
    [] completion.kind = "text" -> Thrown("SyntaxError: not valid JSON")
    [] completion.kind = "null" -> Thrown("TypeError: response is null")
    [] completion.kind = "scalar" -> Returned(AIResult(Undefined, Undefined, Undefined))
    [] completion.kind = "object" ->
         Returned(AIResult(completion.riskScore, completion.confidence,
                           completion.reasoning))

\* how a promise settles: fulfilled with a value or rejected with a message
Rejected(msg) == [rejected |-> TRUE, message |-> msg]
IsRejected(settled) == "rejected" \in DOMAIN settled

\* performAIAnalysis without its catch: what the try block throws rejects the
\* promise
performAIAnalysisUncaught(completion) ==
  IF AITry(completion).thrown
  THEN Rejected(AITry(completion).message)
  ELSE AITry(completion).value

\* what the promise of performAIAnalysis settles to, given how the call settled
performAIAnalysis(completion) ==
  IF AITry(completion).thrown
  THEN AIError(AITry(completion).message)
  ELSE AITry(completion).value

(* ------------------------- composite scorer ---------------------------- *)
\* a scorer that gives the classifier the weight of the text
calculateCompositeRiskHeavyAI(textAnalysis, companyAnalysis, salaryAnalysis, aiAnalysis) ==
  LET totalRisk ==
        textAnalysis.score * WeightText
        + (IF ~companyAnalysis.verified THEN CompanyPenalty * WeightCompany ELSE 0)
        + (IF ~salaryAnalysis.realistic THEN SalaryPenalty * WeightSalary ELSE 0)
        + aiAnalysis.riskScore * WeightText
  IN Min(totalRisk, RiskCap)

\* a scorer that clamps the weighted sum at both ends
calculateCompositeRiskClamped(textAnalysis, companyAnalysis, salaryAnalysis, aiAnalysis) ==
  LET totalRisk ==
        textAnalysis.score * WeightText
        + (IF ~companyAnalysis.verified THEN CompanyPenalty * WeightCompany ELSE 0)
        + (IF ~salaryAnalysis.realistic THEN SalaryPenalty * WeightSalary ELSE 0)
        + aiAnalysis.riskScore * WeightAI
  IN IF totalRisk < 0 THEN 0 ELSE Min(totalRisk, RiskCap)

\* a scorer that takes an unverified company at the full company weight
calculateCompositeRiskFullPenalty(textAnalysis, companyAnalysis, salaryAnalysis, aiAnalysis) ==
  LET totalRisk ==
        textAnalysis.score * WeightText
        + (IF ~companyAnalysis.verified THEN 100 * WeightCompany ELSE 0)
        + (IF ~salaryAnalysis.realistic THEN SalaryPenalty * WeightSalary ELSE 0)
        + (IF aiAnalysis.riskScore # 0 THEN aiAnalysis.riskScore ELSE 0) * WeightAI
  IN Min(totalRisk, RiskCap)

calculateCompositeRisk(textAnalysis, companyAnalysis, salaryAnalysis, aiAnalysis) ==
  LET totalRisk ==
        textAnalysis.score * WeightText
        + (IF ~companyAnalysis.verified THEN CompanyPenalty * WeightCompany ELSE 0)
        + (IF ~salaryAnalysis.realistic THEN SalaryPenalty * WeightSalary ELSE 0)
        + (IF aiAnalysis.riskScore # 0 THEN aiAnalysis.riskScore ELSE 0) * WeightAI
  IN Min(totalRisk, RiskCap)

Has(rec, f) == f \in DOMAIN rec

\* `IA: ${reasoning}`: the prefix and the reasoning text
AIFlag(reasoning) == "IA: " \o reasoning

SalaryFlag(reason) == "Salario irrealista: " \o reason

\* generateFlags with the two company checks in the other order
generateFlagsVerifiedFirst(textAnalysis, companyAnalysis, salaryAnalysis, aiAnalysis) ==
  textAnalysis.matchedPatterns
  \o (IF ~companyAnalysis.verified
      THEN <<"Empresa no verificada en bases de datos">> ELSE <<>>)
  \o (IF Has(companyAnalysis, "isGeneric") /\ companyAnalysis.isGeneric
      THEN <<"Nombre de empresa generico o sospechoso">> ELSE <<>>)
  \o (IF ~salaryAnalysis.realistic
      THEN <<SalaryFlag(IF Has(salaryAnalysis, "reason") /\ salaryAnalysis.reason # ""
                        THEN salaryAnalysis.reason ELSE "fuera de rango esperado")>>
      ELSE <<>>)
  \o (IF aiAnalysis.reasoning # "" THEN <<AIFlag(aiAnalysis.reasoning)>> ELSE <<>>)

generateFlags(textAnalysis, companyAnalysis, salaryAnalysis, aiAnalysis) ==
  textAnalysis.matchedPatterns
  \o (IF Has(companyAnalysis, "isGeneric") /\ companyAnalysis.isGeneric
      THEN <<"Nombre de empresa generico o sospechoso">> ELSE <<>>)
  \o (IF ~companyAnalysis.verified
      THEN <<"Empresa no verificada en bases de datos">> ELSE <<>>)
  \o (IF ~salaryAnalysis.realistic
      THEN <<SalaryFlag(IF Has(salaryAnalysis, "reason") /\ salaryAnalysis.reason # ""
                        THEN salaryAnalysis.reason ELSE "fuera de rango esperado")>>
      ELSE <<>>)
  \o (IF aiAnalysis.reasoning # "" THEN <<AIFlag(aiAnalysis.reasoning)>> ELSE <<>>)

\* what analyzeJob returns once the four analyses have settled
AnalysisOf(job, textAnalysis, companyAnalysis, salaryAnalysis, aiAnalysis, time) ==
  [risk |-> calculateCompositeRisk(textAnalysis, companyAnalysis, salaryAnalysis, aiAnalysis),
   confidence |-> IF aiAnalysis.confidence # 0 THEN aiAnalysis.confidence
                  ELSE DefaultConfidence,
   flags |-> generateFlags(textAnalysis, companyAnalysis, salaryAnalysis, aiAnalysis),
   aiAnalysis |-> [textScore |-> textAnalysis.score,
                   companyVerified |-> companyAnalysis.verified,
                   salaryRealistic |-> salaryAnalysis.realistic,
                   patternMatches |-> textAnalysis.matchedPatterns],
   jobTitle |-> job.title,
   company |-> job.company,
   location |-> job.location,
   salary |-> job.salary,
   timestamp |-> time]

\* a catch branch that returns the zero result without marking it
FailSafeUnmarked(msg) == [risk |-> 0, confidence |-> 0, flags |-> <<>>]

\* analyzeJob's catch branch
FailSafe(msg) ==
  [risk |-> 0, confidence |-> 0, flags |-> <<"Error en analisis">>, error |-> msg]

\* analyzeJob's try block from the join on: calculateCompositeRisk, then
\* generateFlags, whose `IA: ${aiAnalysis.reasoning}` converts the reasoning
\* to a string, then the object literal
ScoreTry(job, textAnalysis, companyAnalysis, salaryAnalysis, aiAnalysis, time) ==
  IF ToStringThrows(aiAnalysis.reasoning)
  THEN Thrown("TypeError: Cannot convert object to primitive value")
  ELSE Returned(AnalysisOf(job, textAnalysis, companyAnalysis, salaryAnalysis,
                           aiAnalysis, time))

\* what analyzeJob returns once the four analyses have been fulfilled
analyzeJob(job, textAnalysis, companyAnalysis, salaryAnalysis, aiAnalysis, time) ==
  LET try == ScoreTry(job, textAnalysis, companyAnalysis, salaryAnalysis,
                      aiAnalysis, time)
  IN IF try.thrown THEN FailSafe(try.message) ELSE try.value

(* --------------------------- the stores -------------------------------- *)
\* jobId = job.id || Buffer.from(job.title + job.company).toString("base64");
\* base64 is injective, so the encoded string is modelled by a tagged copy
\* of the concatenation it encodes
Base64(s) == "b64:" \o s

Fingerprint(job) == IF job.id # "" THEN job.id ELSE Base64(job.title \o job.company)

\* one key for every name
CacheKeyShared(companyName) == "company:"

CacheKey(companyName) == "company:" \o companyName

CacheKeys == {CacheKey(j.company) : j \in {v \in ValidJobs : v.company # ""}}

NoEntry == [present |-> FALSE]

\* JSON.stringify / JSON.parse of a verdict: booleans and numbers survive,
\* the string is a different value from the object it encodes
JSONStringify(v) == [json |-> v]
JSONParse(s) == s.json

\* the document `new JobAnalysis({jobId, ...job, riskScore, ...})` builds:
\* schema paths only (job.id is no path), defaults for timestamp and userReports
DocOf(jobId, job, analysis, oid, time) ==
  [_id |-> oid, jobId |-> jobId,
   title |-> job.title, company |-> job.company, location |-> job.location,
   description |-> job.description, salary |-> job.salary,
   riskScore |-> analysis.risk, confidence |-> analysis.confidence,
   flags |-> analysis.flags,
   aiAnalysis |-> IF "aiAnalysis" \in DOMAIN analysis THEN analysis.aiAnalysis
                  ELSE [absent |-> TRUE],
   timestamp |-> time,
   userReports |-> [scamReports |-> 0, falsePositives |-> 0],
   version |-> 0]

\* existingAnalysis.toObject(): the stored paths as a plain object
toObject(doc) == [f \in DOMAIN doc |-> doc[f]]

Reqs == 1..NumReqs

VARIABLES
  now,          \* Date.now(), in hours
  jobAnalyses,  \* the JobAnalysis collection, in insertion order
  redis,        \* the Verification Cache: key -> entry
  usage,        \* the authenticated user's usage counters
  pc,           \* pc[r]: where request r's handler stands
  job,          \* job[r]: req.body.job
  sub,          \* sub[r]: the in-flight analyses of analyzeJob
  analysis,     \* analysis[r]: the handler's `analysis`
  response,     \* response[r]: what res.json / res.status().json sent
  trace,        \* trace[r]: what the request did (history)
  extension     \* the browser extension: content script, background, storage

vars ==
  <<now, jobAnalyses, redis, usage, pc, job, sub, analysis, response, trace,
    extension>>

None == [none |-> TRUE]

\* builtAt: when the handler built the document it is saving; last: which
\* of the two awaited analyses was the last to settle
NoSub == [vc |-> "off", ai |-> "off", builtAt |-> 0, last |-> "none"]

\* cacheReads and cacheWrites count the get and setex calls issued, verdicts
\* the verdict computations of verifyCompany; lookup is what the get answered
NoTrace ==
  [hit |-> FALSE, analyzeJob |-> 0, analyzers |-> 0, aiCalls |-> 0,
   cacheReads |-> 0, cacheWrites |-> 0, indexWrites |-> 0,
   lookup |-> "none", verdicts |-> 0,
   indexDown |-> FALSE, cacheDown |-> FALSE, aiFailed |-> FALSE,
   duplicateKey |-> FALSE, stale |-> FALSE, racedMiss |-> FALSE,
   route |-> "analyze", user |-> None]

(* --------------------- the extension (background.js) ------------------- *)
\* Local risk is in hundredths, as the scores above; the risk of a server
\* answer is in ten-thousandths, as the composite risk.
Elements == 1..NumElements

\* what extractJobData reads from a card: the posting and the card's id
CardWfh == [JobWfh EXCEPT !.id = "card-wfh"]
CardSenior == [JobSenior EXCEPT !.id = "card-senior"]

\* the page: odd cards show one posting, even cards the other
Card(e) == IF e % 2 = 1 THEN CardWfh ELSE CardSenior

CardIds == {Card(e).id : e \in Elements}

\* hits: how many of the seven expressions match the description or the
\* title; numbers: the figures salary.match(/\$(\d+)/g) yields, the dollar
\* sign removed; generic: company.toLowerCase() includes one of
\* genericCompanies
performLocalAnalysis(jobData) ==
  LET hits ==
        CASE jobData.title = CardWfh.title
             /\ jobData.description = CardWfh.description -> 2
          [] OTHER -> 0
      numbers ==
        CASE jobData.salary = "$900,000" -> {900}
          [] jobData.salary = "$130,000/year" -> {130}
          [] OTHER -> {}
      unreal == IF jobData.salary = "" \/ numbers = {} THEN FALSE
                ELSE SetMax(numbers) > 200
      generic == jobData.company \in {"Hiring Now LLC"}
      score == 30 * hits + (IF unreal THEN 20 ELSE 0) + (IF generic THEN 25 ELSE 0)
  IN [score |-> score,
      flags |-> [i \in 1..hits |-> "Patron de texto sospechoso detectado"]
                \o (IF unreal THEN <<"Salario potencialmente irreal">> ELSE <<>>)
                \o (IF generic THEN <<"Nombre de empresa generico">> ELSE <<>>),
      risk |-> IF score < 100 THEN score ELSE 100]

\* the badges of an element after showWarningBadge: an element that has a
\* badge keeps it, another gets one appended
showWarningBadge(badges, localRisk) ==
  IF badges # <<>> THEN badges
  ELSE Append(badges, IF localRisk.risk > 70 THEN "high"
                      ELSE IF localRisk.risk > 40 THEN "medium"
                      ELSE "low")

updateBadgeWithAI(badge, aiAnalysis) ==
  IF aiAnalysis.risk > 7000 THEN "high"
  ELSE IF aiAnalysis.risk > 4000 THEN "medium"
  ELSE "low"

\* what the server answers to the content script's POST
ServerAnswers ==
  {[risk |-> r, confidence |-> 80, flags |-> <<>>] : r \in {2000, 6500, 10000}}

\* what performAIAnalysis returns when the call fails
FetchFailed == [risk |-> 0, confidence |-> 0, flags |-> <<>>]

\* a display that gives an element without a badge one for the server's result
updateJobRiskDisplayCreating(x, e, aiAnalysis) ==
  IF x.badge[e] # <<>>
  THEN [x EXCEPT !.badge[e][1] = updateBadgeWithAI(@, aiAnalysis)]
  ELSE [x EXCEPT !.badge[e] = <<updateBadgeWithAI("none", aiAnalysis)>>]

\* the class body defines updateJobRiskDisplay twice; the later definition
\* is the method of the class: it updates the element's first badge, if it
\* has one, and sends nothing
updateJobRiskDisplay(x, e, aiAnalysis) ==
  IF x.badge[e] # <<>>
  THEN [x EXCEPT !.badge[e][1] = updateBadgeWithAI(@, aiAnalysis)]
  ELSE x

\* The stored 'analyses' object is the sequence of its entries in the
\* order Object.entries lists them (the order of insertion: the keys here
\* are no array indices).
Keys(entries) == {entries[i].key : i \in 1..Len(entries)}

\* analyses[key] = entry: a key the object has keeps its place
Put(entries, entry) ==
  IF entry.key \in Keys(entries)
  THEN [i \in 1..Len(entries) |->
          IF entries[i].key = entry.key THEN entry ELSE entries[i]]
  ELSE Append(entries, entry)

\* entries.sort((a, b) => b[1].timestamp - a[1].timestamp), a stable sort,
\* for timestamps from 0 to time
RECURSIVE ByNewest(_, _)
ByNewest(entries, time) ==
  IF time < 0 THEN <<>>
  ELSE SelectSeq(entries, LAMBDA entry : entry.timestamp = time)
       \o ByNewest(entries, time - 1)

\* the object written after analyses[key] = {...analysis, timestamp}: the
\* limit's newest entries once there are more
Written(entries, key, aiAnalysis, limit, time) ==
  LET all == Put(entries, [key |-> key, risk |-> aiAnalysis.risk,
                           timestamp |-> time])
  IN IF Len(all) > limit THEN SubSeq(ByNewest(all, time), 1, limit) ELSE all

\* analysis.jobId || `job_${Date.now()}`
AnalysisKey(analysisData, time) ==
  IF "jobId" \in DOMAIN analysisData THEN analysisData.jobId
  ELSE "job_" \o ToString(time)

\* what the background's saveAnalysis writes when it has read entries
saveAnalysis(entries, analysisData, time) ==
  Written(entries, AnalysisKey(analysisData, time), analysisData,
          AnalysesLimit, time)

\* what the content script's saveAnalysisResult writes when it has read entries
saveAnalysisResult(entries, jobId, aiAnalysis, time) ==
  Written(entries, jobId, aiAnalysis, ResultsLimit, time)

\* handleJobDetected's change to the stats it has read
CountDetected(stats) == [stats EXCEPT !.jobsDetected = @ + 1]

\* handleAnalysisComplete's change to the stats it has read
CountAnalysis(stats, analysisData) ==
  LET scam == analysisData.risk > 6000
  IN [stats EXCEPT !.scamsBlocked = IF scam THEN @ + 1 ELSE @,
                   !.timeSaved = IF scam THEN @ + 5 ELSE @,
                   !.jobsScanned = @ + 1]

\* the handlers when nothing else runs between their awaits
handleJobDetected(x, jobData) ==
  [x EXCEPT !.stats = CountDetected(@)]

handleAnalysisComplete(x, analysisData) ==
  [x EXCEPT !.analyses = saveAnalysis(@, analysisData, now),
            !.stats = CountAnalysis(@, analysisData),
            !.notifications = IF analysisData.risk > 8000 THEN @ + 1 ELSE @]

\* the background script's switch on message.action
handleMessage(x, message) ==
  CASE message.action = "jobDetected" -> handleJobDetected(x, message.data)
    [] message.action = "analysisComplete" -> handleAnalysisComplete(x, message.data)
    [] message.action = "openSidePanel" -> [x EXCEPT !.panelOpen = TRUE]
    [] OTHER -> x

\* a handler of the background script, or a saveAnalysisResult of the
\* content script, between its storage calls: what it was called with and
\* the objects it has read and changed
Tasks == 1..NumTasks

IdleTask ==
  [kind |-> "none", pc |-> "idle", data |-> None, key |-> "",
   stats |-> None, analyses |-> <<>>]

\* activityFeed.unshift(item), cut to the newest activities
addActivityItem(panel, type) ==
  LET feed == <<type>> \o panel.activityFeed
  IN [panel EXCEPT !.activityFeed =
        IF Len(feed) > ActivityLimit THEN SubSeq(feed, 1, ActivityLimit) ELSE feed]

\* a scan that ends and leaves the flag and the button as they are
FinallyForgotten(panel) == [panel EXCEPT !.pc = "idle"]

\* scanCurrentPage's finally block
Finally(panel) ==
  [panel EXCEPT !.isScanning = FALSE, !.scanBtnDisabled = FALSE, !.pc = "idle"]

\* the extension after the content script's constructor (nothing scanned,
\* its 'contentScriptLoaded' message on its way) and the side panel's: in
\* panel, calls counts the calls of scanCurrentPage and rescans the
\* 'rescan' messages sent (history)
Installed ==
  [scannedJobs |-> {},
   scan |-> [e \in Elements |-> [pc |-> "idle", analysis |-> None, calls |-> 0]],
   localRuns |-> [id \in CardIds |-> 0],
   serverCalls |-> [id \in CardIds |-> 0],
   badge |-> [e \in Elements |-> <<>>],
   timers |-> 0,
   inbox |-> <<[action |-> "contentScriptLoaded", data |-> None]>>,
   stats |-> [scamsBlocked |-> 0, jobsScanned |-> 0, timeSaved |-> 0,
              jobsDetected |-> 0],
   analyses |-> <<>>,
   tasks |-> [t \in Tasks |-> IdleTask],
   panel |-> [isScanning |-> FALSE, scanBtnDisabled |-> FALSE, pc |-> "idle",
              activityFeed |-> <<>>, calls |-> 0, rescans |-> 0],
   panelOpen |-> FALSE,
   notifications |-> 0]

Init ==
  /\ now = 0
  /\ jobAnalyses = <<>>
  /\ redis = [k \in CacheKeys |-> NoEntry]
  /\ usage = [dailyAnalyses |-> 0, monthlyAnalyses |-> 0]
  /\ pc = [r \in Reqs |-> "idle"]
  /\ job = [r \in Reqs |-> None]
  /\ sub = [r \in Reqs |-> NoSub]
  /\ analysis = [r \in Reqs |-> None]
  /\ response = [r \in Reqs |-> None]
  /\ trace = [r \in Reqs |-> NoTrace]
  /\ extension = Installed

ServerError(msg) ==
  [status |-> 500, body |-> [error |-> "Error interno del servidor", message |-> msg]]

(* ------------------ POST /api/v1/analyze, step by step ----------------- *)
\* One action per stretch of the handler between two awaits.  A request is
\* past authenticateUser when it is received.  Requests are numbered in the
\* order they arrive.

\* a handler without the validation
IncompleteNever(j) == FALSE

\* !job || !job.title || !job.description
Incomplete(j) == IF j = NoJob THEN TRUE ELSE j.title = "" \/ j.description = ""

\* the body arrives; the validation of job, job.title and job.description
Receive(r, j) ==
  /\ pc[r] = "idle"
  /\ IF r = 1 THEN TRUE ELSE pc[r - 1] # "idle"
  /\ job' = [job EXCEPT ![r] = j]
  /\ IF Incomplete(j)
     THEN /\ response' = [response EXCEPT ![r] =
                [status |-> 400, body |-> [error |-> "Datos de trabajo incompletos"]]]
          /\ pc' = [pc EXCEPT ![r] = "done"]
     ELSE /\ pc' = [pc EXCEPT ![r] = "usage"]
          /\ UNCHANGED response
  /\ UNCHANGED <<extension, now, jobAnalyses, redis, usage, sub, analysis, trace>>

\* an update that starts the day's count again at every analysis
IncUsageRestarting(u) ==
  [u EXCEPT !.dailyAnalyses = 1, !.monthlyAnalyses = @ + 1]

\* {$inc: {"usage.dailyAnalyses": 1, "usage.monthlyAnalyses": 1}}
IncUsage(u) ==
  [u EXCEPT !.dailyAnalyses = @ + 1, !.monthlyAnalyses = @ + 1]

\* await User.findByIdAndUpdate(..., {$inc: ...})
UpdateUsage(r) ==
  /\ pc[r] = "usage"
  /\ usage' = IncUsage(usage)
  /\ pc' = [pc EXCEPT ![r] = "find"]
  /\ UNCHANGED <<extension, now, jobAnalyses, redis, job, sub, analysis, response, trace>>

\* positions of the documents JobAnalysis.findOne's filter selects ($gte
\* does not match a document without the field)
RecentDocs(jobId, time) ==
  {i \in 1..Len(jobAnalyses) :
     /\ jobAnalyses[i].jobId = jobId
     /\ "timestamp" \in DOMAIN jobAnalyses[i]
     /\ jobAnalyses[i].timestamp >= time - DedupWindow}

DocsOf(jobId) == {i \in 1..Len(jobAnalyses) : jobAnalyses[i].jobId = jobId}

SetMin(S) == CHOOSE m \in S : \A n \in S : m <= n

InFlight(r) == pc[r] \in {"analyzing", "save"}

\* verifyCompany without its early return: every name goes to the cache
StartAnalyzeJobAlwaysGet(j) ==
  [text |-> analyzeJobText(j),
   salary |-> analyzeSalary(j.salary, j.title),
   vc |-> "get",
   company |-> None,
   ai |-> "wait",
   aiResult |-> None,
   builtAt |-> 0,
   last |-> "none"]

\* what Promise.all starts synchronously: analyzeJobText and analyzeSalary
\* return at once, verifyCompany runs up to its redis get, performAIAnalysis
\* up to the openai call
StartAnalyzeJob(j) ==
  [text |-> analyzeJobText(j),
   salary |-> analyzeSalary(j.salary, j.title),
   vc |-> IF j.company = "" THEN "done" ELSE "get",
   company |-> IF j.company = "" THEN CompanyAbsent ELSE None,
   ai |-> "wait",
   aiResult |-> None,
   builtAt |-> 0,
   last |-> "none"]

\* a handler that analyzes again whatever findOne answered
TakesCachedResultNever(existing) == FALSE

\* the route the handler takes once findOne has answered
TakesCachedResult(existing) == existing # {}

\* await JobAnalysis.findOne({jobId, timestamp: {$gte: now - 24 h}}) and the
\* code that follows it up to the next await
FindRecent(r) ==
  /\ pc[r] = "find"
  /\ LET jobId == Fingerprint(job[r])
         existing == RecentDocs(jobId, now)
         racers == {q \in Reqs \ {r} : InFlight(q) /\ Fingerprint(job[q]) = jobId}
     IN IF TakesCachedResult(existing)
        THEN /\ analysis' = [analysis EXCEPT ![r] = toObject(jobAnalyses[SetMin(existing)])]
             /\ response' = [response EXCEPT ![r] =
                   [status |-> 200, body |-> toObject(jobAnalyses[SetMin(existing)])]]
             /\ pc' = [pc EXCEPT ![r] = "done"]
             /\ trace' = [trace EXCEPT ![r].hit = existing # {}]
             /\ UNCHANGED sub
        ELSE /\ sub' = [sub EXCEPT ![r] = StartAnalyzeJob(job[r])]
             /\ pc' = [pc EXCEPT ![r] = "analyzing"]
             /\ trace' = [q \in Reqs |->
                   IF q = r
                   THEN [trace[r] EXCEPT !.hit = existing # {},
                                         !.analyzeJob = @ + 1,
                                         !.analyzers = @ + 4,
                                         !.aiCalls = @ + 1,
                                         !.stale = DocsOf(jobId) # {},
                                         !.racedMiss = racers # {}]
                   ELSE IF q \in racers THEN [trace[q] EXCEPT !.racedMiss = TRUE]
                   ELSE trace[q]]
             /\ UNCHANGED <<analysis, response>>
  /\ UNCHANGED <<extension, now, jobAnalyses, redis, usage, job>>

\* the lookup rejects (store unavailable): the handler's catch answers 500
FindRecentFails(r) ==
  /\ pc[r] = "find"
  /\ response' = [response EXCEPT ![r] = ServerError("index unavailable")]
  /\ pc' = [pc EXCEPT ![r] = "done"]
  /\ trace' = [trace EXCEPT ![r].indexDown = TRUE]
  /\ UNCHANGED <<extension, now, jobAnalyses, redis, usage, job, sub, analysis>>

\* a join that does not wait for verifyCompany: it scores when the classifier
\* has answered, with the verdict of an absent company while none is there
SettleEager(r, s) ==
  IF s.ai = "done"
  THEN /\ analysis' = [analysis EXCEPT ![r] =
             analyzeJob(job[r], s.text,
                        IF s.vc = "done" THEN s.company ELSE CompanyAbsent,
                        s.salary, s.aiResult, now)]
       /\ sub' = [sub EXCEPT ![r] = [s EXCEPT !.builtAt = now]]
       /\ pc' = [pc EXCEPT ![r] = "save"]
  ELSE /\ sub' = [sub EXCEPT ![r] = s]
       /\ UNCHANGED <<analysis, pc>>

\* One of the two awaited analyses settles with the in-flight state s.  When
\* it is the last one, Promise.all resolves and the continuation runs before
\* any other I/O callback: analyzeJob scores and returns, the handler builds
\* the document (timestamp default Date.now) and starts save().  sub[r] keeps
\* the four analyses until the handler answers.
Settle(r, s) ==
  IF IsRejected(s.aiResult)
  THEN /\ analysis' = [analysis EXCEPT ![r] = FailSafe(s.aiResult.message)]
       /\ sub' = [sub EXCEPT ![r] = [s EXCEPT !.vc = "off", !.builtAt = now]]
       /\ pc' = [pc EXCEPT ![r] = "save"]
  ELSE IF s.vc = "done" /\ s.ai = "done"
  THEN /\ analysis' = [analysis EXCEPT ![r] =
             analyzeJob(job[r], s.text, s.company, s.salary, s.aiResult, now)]
       /\ sub' = [sub EXCEPT ![r] =
             [s EXCEPT !.builtAt = now,
                       !.last = IF sub[r].ai = "done" THEN "company" ELSE "classifier"]]
       /\ pc' = [pc EXCEPT ![r] = "save"]
  ELSE /\ sub' = [sub EXCEPT ![r] = s]
       /\ UNCHANGED <<analysis, pc>>

(* verifyCompany *)
Live(entry, time) == entry.present /\ time < entry.expiresAt

\* an entry that never expires
CacheEntryForever(verdict, time) ==
  [present |-> TRUE, value |-> JSONStringify(verdict),
   expiresAt |-> MaxNow + CacheTTL + 1]

\* what setex(key, 86400, JSON.stringify(result)) leaves under the key
CacheEntry(verdict, time) ==
  [present |-> TRUE, value |-> JSONStringify(verdict), expiresAt |-> time + CacheTTL]

\* what verifyCompany's catch returns after a failed cache access
CacheFailureVerdict(companyName, msg) == CompanyError(msg)

\* await redisClient.get(`company:${companyName}`) and what follows
RedisGet(r) ==
  /\ sub[r].vc = "get"
  /\ LET name == job[r].company
         entry == redis[CacheKey(name)]
     IN IF Live(entry, now)
        THEN /\ Settle(r, [sub[r] EXCEPT !.vc = "done",
                                         !.company = JSONParse(entry.value)])
             /\ trace' = [trace EXCEPT ![r].cacheReads = @ + 1, ![r].lookup = "hit"]
        ELSE /\ Settle(r, [sub[r] EXCEPT !.vc = "set",
                                         !.company = CompanyVerdict(name)])
             /\ trace' = [trace EXCEPT ![r].cacheReads = @ + 1, ![r].lookup = "miss",
                                       ![r].verdicts = @ + 1]
  /\ UNCHANGED <<extension, now, jobAnalyses, redis, usage, job, response>>

RedisGetFails(r) ==
  /\ sub[r].vc = "get"
  /\ Settle(r, [sub[r] EXCEPT !.vc = "done",
                 !.company = CacheFailureVerdict(job[r].company, "redis unavailable")])
  /\ trace' = [trace EXCEPT ![r].cacheDown = TRUE, ![r].cacheReads = @ + 1,
                            ![r].lookup = "failed"]
  /\ UNCHANGED <<extension, now, jobAnalyses, redis, usage, job, response>>

\* await redisClient.setex(key, 86400, JSON.stringify(result)); return result
RedisSetex(r) ==
  /\ sub[r].vc = "set"
  /\ redis' = [redis EXCEPT ![CacheKey(job[r].company)] =
                  CacheEntry(sub[r].company, now)]
  /\ Settle(r, [sub[r] EXCEPT !.vc = "done"])
  /\ trace' = [trace EXCEPT ![r].cacheWrites = @ + 1]
  /\ UNCHANGED <<extension, now, jobAnalyses, usage, job, response>>

RedisSetexFails(r) ==
  /\ sub[r].vc = "set"
  /\ Settle(r, [sub[r] EXCEPT !.vc = "done",
                 !.company = CacheFailureVerdict(job[r].company, "redis unavailable")])
  /\ trace' = [trace EXCEPT ![r].cacheDown = TRUE, ![r].cacheWrites = @ + 1]
  /\ UNCHANGED <<extension, now, jobAnalyses, redis, usage, job, response>>

(* performAIAnalysis *)
FailedCompletion(c) == c.kind \in {"reject", "noChoices", "text", "null"}

\* the openai call settles with completion c
ClassifierSettles(r, c) ==
  /\ sub[r].ai = "wait"
  /\ Settle(r, [sub[r] EXCEPT !.ai = "done", !.aiResult = performAIAnalysis(c)])
  /\ trace' = [trace EXCEPT ![r].aiFailed = FailedCompletion(c)]
  /\ UNCHANGED <<extension, now, jobAnalyses, redis, usage, job, response>>

\* a collection without the unique index
UniqueIndexAdmitsAll(jobId) == TRUE

\* the unique index on jobId admits the insert
UniqueIndexAdmits(jobId) == DocsOf(jobId) = {}

\* await new JobAnalysis({...}).save(); res.json(analysis)
Save(r) ==
  /\ pc[r] = "save"
  /\ LET jobId == Fingerprint(job[r])
     IN IF UniqueIndexAdmits(jobId)
        THEN /\ jobAnalyses' = Append(jobAnalyses,
                   DocOf(jobId, job[r], analysis[r], Len(jobAnalyses) + 1, sub[r].builtAt))
             /\ response' = [response EXCEPT ![r] = [status |-> 200, body |-> analysis[r]]]
             /\ trace' = [trace EXCEPT ![r].indexWrites = @ + 1]
        ELSE /\ response' = [response EXCEPT ![r] =
                   ServerError("E11000 duplicate key error: jobId")]
             /\ trace' = [trace EXCEPT ![r].duplicateKey = TRUE]
             /\ UNCHANGED jobAnalyses
  /\ pc' = [pc EXCEPT ![r] = "done"]
  /\ sub' = [sub EXCEPT ![r] = NoSub]
  /\ UNCHANGED <<extension, now, redis, usage, job, analysis>>

\* save() rejects (store unavailable)
SaveFails(r) ==
  /\ pc[r] = "save"
  /\ response' = [response EXCEPT ![r] = ServerError("index unavailable")]
  /\ trace' = [trace EXCEPT ![r].indexDown = TRUE]
  /\ pc' = [pc EXCEPT ![r] = "done"]
  /\ sub' = [sub EXCEPT ![r] = NoSub]
  /\ UNCHANGED <<extension, now, jobAnalyses, redis, usage, job, analysis>>

(* ------------------------ POST /api/v1/report -------------------------- *)
\* $inc on a counter path: a missing path counts from 0
Inc(counters, field) ==
  IF field \in DOMAIN counters
  THEN [counters EXCEPT ![field] = @ + 1]
  ELSE [f \in DOMAIN counters \cup {field} |->
          IF f = field THEN 1 ELSE counters[f]]

UpdateField(type) == IF type = "scam" THEN "scamReports" ELSE "falsePositives"

\* The document an upsert inserts when no document has the jobId: the
\* filter's jobId and the $inc'ed counter.  With setDefaultsOnInsert (the
\* default from Mongoose 6 on, off in Mongoose 5) the schema defaults too:
\* timestamp, the other counter, the empty flags arrays.
Upserted(jobId, type, oid, setDefaultsOnInsert, time) ==
  IF setDefaultsOnInsert
  THEN [_id |-> oid, jobId |-> jobId, flags |-> <<>>,
        aiAnalysis |-> [patternMatches |-> <<>>],
        timestamp |-> time,
        userReports |-> Inc([scamReports |-> 0, falsePositives |-> 0],
                            UpdateField(type)),
        version |-> 0]
  ELSE [_id |-> oid, jobId |-> jobId,
        userReports |-> Inc([f \in {} |-> 0], UpdateField(type)),
        version |-> 0]

ReportsOf(doc) ==
  (IF "scamReports" \in DOMAIN doc.userReports THEN doc.userReports.scamReports ELSE 0)
  + (IF "falsePositives" \in DOMAIN doc.userReports
     THEN doc.userReports.falsePositives ELSE 0)

RECURSIVE ReportsIn(_)
ReportsIn(docs) ==
  IF docs = <<>> THEN 0 ELSE ReportsOf(Head(docs)) + ReportsIn(Tail(docs))

\* the whole handler: await JobAnalysis.findOneAndUpdate({jobId}, {$inc: ...},
\* {upsert: true}); res.json({success: true, ...}).  The handler keeps
\* nothing, so its one await is its one step.
Report(jobId, type) ==
  /\ ReportsIn(jobAnalyses) < MaxReports
  /\ LET found == DocsOf(jobId)
     IN IF found # {}
        THEN jobAnalyses' = [jobAnalyses EXCEPT ![SetMin(found)].userReports =
                               Inc(@, UpdateField(type))]
        ELSE \E setDefaultsOnInsert \in BOOLEAN :
               jobAnalyses' = Append(jobAnalyses,
                 Upserted(jobId, type, Len(jobAnalyses) + 1, setDefaultsOnInsert, now))
  /\ UNCHANGED <<extension, now, redis, usage, pc, job, sub, analysis, response, trace>>

\* time passes
Tick ==
  /\ now + TickHours <= MaxNow
  /\ now' = now + TickHours
  /\ UNCHANGED <<extension, jobAnalyses, redis, usage, pc, job, sub, analysis, response, trace>>

(* ------------------------- specifications ------------------------------ *)
\* Spec: NumReqs requests run the handler concurrently against the shared
\* stores; the Recent Analysis Index may fail, the Verification Cache and the
\* classifier answer.
Jobs == {JobClerk, JobIntern, JobNoDescription}

Completions ==
  {Reject("ETIMEDOUT"),
   JsonObject(Num(40), Num(90), Str("plausible offer"))}

Next ==
  \/ \E r \in Reqs, j \in Jobs : Receive(r, j)
  \/ \E r \in Reqs : UpdateUsage(r)
  \/ \E r \in Reqs : FindRecent(r)
  \/ \E r \in Reqs : FindRecentFails(r)
  \/ \E r \in Reqs : RedisGet(r)
  \/ \E r \in Reqs : RedisSetex(r)
  \/ \E r \in Reqs, c \in Completions : ClassifierSettles(r, c)
  \/ \E r \in Reqs : Save(r)
  \/ \E r \in Reqs : SaveFails(r)
  \/ Tick

Spec == Init /\ [][Next]_vars

\* AnalyzeSpec: one request, every posting, every kind of classifier answer,
\* a Verification Cache that may hold verdicts of earlier calls and may fail.
AllJobs == ValidJobs \cup {JobNoDescription, JobNoTitle, NoJob}

AllCompletions ==
  {Reject("ETIMEDOUT"), NoChoices, Text(""), Text("I cannot rate this posting"),
   JsonNull, JsonScalar}
  \cup {JsonObject(r, c, s) :
          r \in {Undefined, Num(0), Num(40), Num(100), Num(150), Num(400), Num(-500)},
          c \in {Undefined, Num(0), Num(90), Num(300), Num(-20)},
          s \in {Undefined, Str(""), Str("plausible offer"), Obj}}

\* a verdict an earlier verifyCompany call stored at time 0
StoredVerdict(k) ==
  LET name == CHOOSE n \in {j.company : j \in ValidJobs} : CacheKey(n) = k
  IN CacheEntry(CompanyVerdict(name), 0)

InitAnalyze ==
  /\ now = 0
  /\ jobAnalyses = <<>>
  /\ \E warm \in BOOLEAN :
       redis = [k \in CacheKeys |-> IF warm THEN StoredVerdict(k) ELSE NoEntry]
  /\ usage = [dailyAnalyses |-> 0, monthlyAnalyses |-> 0]
  /\ pc = [r \in Reqs |-> "idle"]
  /\ job = [r \in Reqs |-> None]
  /\ sub = [r \in Reqs |-> NoSub]
  /\ analysis = [r \in Reqs |-> None]
  /\ response = [r \in Reqs |-> None]
  /\ trace = [r \in Reqs |-> NoTrace]
  /\ extension = Installed

NextAnalyze ==
  \/ \E j \in AllJobs : Receive(1, j)
  \/ UpdateUsage(1)
  \/ FindRecent(1)
  \/ RedisGet(1)
  \/ RedisGetFails(1)
  \/ RedisSetex(1)
  \/ RedisSetexFails(1)
  \/ \E c \in AllCompletions : ClassifierSettles(1, c)
  \/ Save(1)
  \/ Tick

AnalyzeSpec == InitAnalyze /\ [][NextAnalyze]_vars

\* The stores answer every request made to them and the handler runs when
\* they do; nothing obliges the classification service to answer.
StoresAnswer ==
  \/ UpdateUsage(1)
  \/ FindRecent(1)
  \/ RedisGet(1) \/ RedisGetFails(1)
  \/ RedisSetex(1) \/ RedisSetexFails(1)
  \/ Save(1)

FairAnalyzeSpec == AnalyzeSpec /\ WF_vars(StoresAnswer)

\* ReportSpec: NumReqs analyze requests for one posting run concurrently with
\* report requests for its fingerprint and for one that is never analyzed.
ReportTypes == {"scam", "false_positive"}

NextReport ==
  \/ \E r \in Reqs : Receive(r, JobIntern)
  \/ \E r \in Reqs : UpdateUsage(r)
  \/ \E r \in Reqs : FindRecent(r)
  \/ \E r \in Reqs : ClassifierSettles(r, JsonObject(Num(40), Num(90), Str("plausible offer")))
  \/ \E r \in Reqs : Save(r)
  \/ \E jobId \in {Fingerprint(JobIntern), "job-7"}, type \in ReportTypes :
       Report(jobId, type)
  \/ Tick

ReportSpec == Init /\ [][NextReport]_vars

\* DefectSpec: NumReqs analyze requests for one posting; the classifier may
\* answer with a reasoning that cannot be converted to a string, which makes
\* generateFlags throw inside analyzeJob.
NextDefect ==
  \/ \E r \in Reqs : Receive(r, JobIntern)
  \/ \E r \in Reqs : UpdateUsage(r)
  \/ \E r \in Reqs : FindRecent(r)
  \/ \E r \in Reqs, reasoning \in {Str("plausible offer"), Obj} :
       ClassifierSettles(r, JsonObject(Num(40), Num(90), reasoning))
  \/ \E r \in Reqs : Save(r)
  \/ Tick

DefectSpec == Init /\ [][NextDefect]_vars

\* CacheSpec: NumReqs analyze requests for postings of two companies run
\* concurrently, so that their verifyCompany calls interleave on the
\* Verification Cache, whose entries expire as time passes and whose
\* answers may fail.
NextCache ==
  \/ \E r \in Reqs, j \in {JobClerk, JobSenior} : Receive(r, j)
  \/ \E r \in Reqs : UpdateUsage(r)
  \/ \E r \in Reqs : FindRecent(r)
  \/ \E r \in Reqs : RedisGet(r)
  \/ \E r \in Reqs : RedisGetFails(r)
  \/ \E r \in Reqs : RedisSetex(r)
  \/ \E r \in Reqs : RedisSetexFails(r)
  \/ \E r \in Reqs : ClassifierSettles(r, JsonObject(Num(40), Num(90), Str("plausible offer")))
  \/ \E r \in Reqs : Save(r)
  \/ Tick

CacheSpec == Init /\ [][NextCache]_vars

(* ------------------- authenticateUser and the daily limit -------------- *)
\* The user's document is `usage` with its plan.  The middleware reads it
\* when findOne answers, and the route's handler runs from there to its
\* first await.

\* user.usage.dailyAnalyses >= limits[user.plan].daily; the enterprise
\* limit is Infinity
OverDailyLimit(user) ==
  CASE user.plan = "free" -> user.dailyAnalyses >= DailyLimitFree
    [] user.plan = "pro" -> user.dailyAnalyses >= DailyLimitPro
    [] OTHER -> FALSE

\* User.findOne answers request r on `route`: the limit check, and past it
\* the handler up to its first await
AuthenticateUser(r, route, j) ==
  /\ pc[r] = "idle"
  /\ IF r = 1 THEN TRUE ELSE pc[r - 1] # "idle"
  /\ trace' = [trace EXCEPT ![r].user = usage, ![r].route = route]
  /\ IF OverDailyLimit(usage)
     THEN /\ response' = [response EXCEPT ![r] =
                [status |-> 429,
                 body |-> [error |-> "Limite diario excedido",
                           upgrade |-> IF usage.plan = "free" THEN "pro"
                                       ELSE "null"]]]
          /\ pc' = [pc EXCEPT ![r] = "done"]
          /\ UNCHANGED job
     ELSE IF route = "analyze"
     THEN /\ job' = [job EXCEPT ![r] = j]
          /\ IF Incomplete(j)
             THEN /\ response' = [response EXCEPT ![r] =
                        [status |-> 400,
                         body |-> [error |-> "Datos de trabajo incompletos"]]]
                  /\ pc' = [pc EXCEPT ![r] = "done"]
             ELSE /\ pc' = [pc EXCEPT ![r] = "usage"]
                  /\ UNCHANGED response
     ELSE /\ pc' = [pc EXCEPT ![r] = route]
          /\ UNCHANGED <<job, response>>
  /\ UNCHANGED <<extension, now, jobAnalyses, redis, usage, sub, analysis>>

\* User.findOne rejects: the middleware's catch
AuthenticateFails(r) ==
  /\ pc[r] = "idle"
  /\ IF r = 1 THEN TRUE ELSE pc[r - 1] # "idle"
  /\ response' = [response EXCEPT ![r] =
        [status |-> 500, body |-> [error |-> "Error de autenticacion"]]]
  /\ pc' = [pc EXCEPT ![r] = "done"]
  /\ UNCHANGED <<extension, now, jobAnalyses, redis, usage, job, sub, analysis, trace>>

\* POST /api/v1/report past the middleware: the upsert and the answer
AnswerReport(r, jobId, type) ==
  /\ pc[r] = "report"
  /\ LET found == DocsOf(jobId)
     IN IF found # {}
        THEN jobAnalyses' = [jobAnalyses EXCEPT ![SetMin(found)].userReports =
                               Inc(@, UpdateField(type))]
        ELSE \E setDefaultsOnInsert \in BOOLEAN :
               jobAnalyses' = Append(jobAnalyses,
                 Upserted(jobId, type, Len(jobAnalyses) + 1, setDefaultsOnInsert, now))
  /\ response' = [response EXCEPT ![r] =
        [status |-> 200, body |-> [success |-> TRUE, message |-> "Reporte recibido"]]]
  /\ pc' = [pc EXCEPT ![r] = "done"]
  /\ UNCHANGED <<extension, now, redis, usage, job, sub, analysis, trace>>

\* GET /api/v1/stats past the middleware: the aggregate and the answer,
\* with the usage the middleware read
AnswerStats(r) ==
  /\ pc[r] = "stats"
  /\ LET recent == {i \in 1..Len(jobAnalyses) :
                      /\ "timestamp" \in DOMAIN jobAnalyses[i]
                      /\ jobAnalyses[i].timestamp >= now - 30 * 24}
         \* those of them with a risk score above `risk`
         RiskierThan(risk) ==
           {i \in recent : /\ "riskScore" \in DOMAIN jobAnalyses[i]
                           /\ jobAnalyses[i].riskScore > risk}
     IN response' = [response EXCEPT ![r] =
          [status |-> 200,
           body |-> [user |-> trace[r].user,
                     stats |-> [totalAnalyses |-> Cardinality(recent),
                                scamsDetected |-> Cardinality(RiskierThan(6000)),
                                highRiskJobs |-> Cardinality(RiskierThan(8000))]]]]
  /\ pc' = [pc EXCEPT ![r] = "done"]
  /\ UNCHANGED <<extension, now, jobAnalyses, redis, usage, job, sub, analysis, trace>>

\* a user of any plan, one analysis short of the plan's daily limit or at it
InitLimit ==
  /\ now = 0
  /\ jobAnalyses = <<>>
  /\ redis = [k \in CacheKeys |-> NoEntry]
  /\ \E plan \in {"free", "pro", "enterprise"}, used \in {1, 0} :
       LET daily == IF plan = "free" THEN DailyLimitFree - used
                    ELSE DailyLimitPro - used
       IN usage = [dailyAnalyses |-> daily, monthlyAnalyses |-> daily, plan |-> plan]
  /\ pc = [r \in Reqs |-> "idle"]
  /\ job = [r \in Reqs |-> None]
  /\ sub = [r \in Reqs |-> NoSub]
  /\ analysis = [r \in Reqs |-> None]
  /\ response = [r \in Reqs |-> None]
  /\ trace = [r \in Reqs |-> NoTrace]
  /\ extension = Installed

NextLimit ==
  \/ \E r \in Reqs, route \in {"analyze", "report", "stats"},
          j \in {JobIntern, JobNoDescription} : AuthenticateUser(r, route, j)
  \/ \E r \in Reqs : AuthenticateFails(r)
  \/ \E r \in Reqs : UpdateUsage(r)
  \/ \E r \in Reqs : FindRecent(r)
  \/ \E r \in Reqs, c \in {JsonObject(Num(40), Num(90), Str("plausible offer"))} :
       ClassifierSettles(r, c)
  \/ \E r \in Reqs : Save(r)
  \/ \E r \in Reqs, type \in ReportTypes : AnswerReport(r, Fingerprint(JobIntern), type)
  \/ \E r \in Reqs : AnswerStats(r)

LimitSpec == InitLimit /\ [][NextLimit]_vars

(* ------------------------- the extension's steps ----------------------- *)
server == <<now, jobAnalyses, redis, usage, pc, job, sub, analysis, response, trace>>

\* a detector that scans a card whatever it has scanned before
AlreadyScannedNever(x, id) == FALSE

\* this.scannedJobs.has(jobData.id)
AlreadyScanned(x, id) == id \in x.scannedJobs

\* scanJobElement up to its await, as the mutation observer, scanExistingJobs
\* and through it a 'rescan' message call it for a card: a card whose id was
\* scanned is left alone.  localRuns and serverCalls count, for each id, the
\* local analyses made and the calls to the server started (history).
ScanJobElement(e) ==
  LET jobData == Card(e)
      localRisk == performLocalAnalysis(jobData)
  IN /\ extension.scan[e].calls < MaxScans
     /\ IF AlreadyScanned(extension, jobData.id)
        THEN extension' = [extension EXCEPT !.scan[e].calls = @ + 1]
        ELSE extension' =
          [extension EXCEPT
             !.scannedJobs = @ \cup {jobData.id},
             !.localRuns[jobData.id] = @ + 1,
             !.serverCalls[jobData.id] = @ + 1,
             !.badge[e] = IF localRisk.risk > 0
                          THEN showWarningBadge(@, localRisk) ELSE @,
             !.scan[e] = [pc |-> "fetching", analysis |-> None, calls |-> @.calls + 1]]
     /\ UNCHANGED server

\* the server answers: saveAnalysisResult, then the rest of scanJobElement
AnalysisArrives(e, a) ==
  /\ extension.scan[e].pc = "fetching"
  /\ extension' =
       updateJobRiskDisplay(
         [extension EXCEPT !.analyses = saveAnalysisResult(@, Card(e).id, a, now),
                           !.scan[e] = [@ EXCEPT !.pc = "done", !.analysis = a]],
         e, a)
  /\ UNCHANGED server

\* the call fails or the answer is not ok: the rest of scanJobElement runs
\* with the empty analysis
AnalysisFails(e) ==
  /\ extension.scan[e].pc = "fetching"
  /\ extension' =
       updateJobRiskDisplay(
         [extension EXCEPT !.scan[e] = [@ EXCEPT !.pc = "done", !.analysis = FetchFailed]],
         e, FetchFailed)
  /\ UNCHANGED server

\* a click on a badge: 'openSidePanel' now, 'showDetailedAnalysis' by timer
BadgeClick(e) ==
  /\ extension.badge[e] # <<>>
  /\ Len(extension.inbox) < MaxInbox
  /\ extension.timers < MaxInbox
  /\ extension' =
       [extension EXCEPT !.inbox = Append(@, [action |-> "openSidePanel", data |-> None]),
                         !.timers = @ + 1]
  /\ UNCHANGED server

DetailTimer ==
  /\ extension.timers > 0
  /\ Len(extension.inbox) < MaxInbox
  /\ extension' =
       [extension EXCEPT !.inbox = Append(@, [action |-> "showDetailedAnalysis", data |-> None]),
                         !.timers = @ - 1]
  /\ UNCHANGED server

\* the background script's listener takes the next message
HandleMessage ==
  /\ extension.inbox # <<>>
  /\ extension' =
       handleMessage([extension EXCEPT !.inbox = Tail(@)], Head(extension.inbox))
  /\ UNCHANGED server

NextExtension ==
  \/ \E e \in Elements : ScanJobElement(e)
  \/ \E e \in Elements, a \in ServerAnswers : AnalysisArrives(e, a)
  \/ \E e \in Elements : AnalysisFails(e)
  \/ \E e \in Elements : BadgeClick(e)
  \/ DetailTimer
  \/ HandleMessage

ExtensionSpec == Init /\ [][NextExtension]_vars

\* a call to the server settles, a timer fires, a message sent is delivered
FairExtensionSpec ==
  /\ ExtensionSpec
  /\ WF_vars(\E e \in Elements : \/ \E a \in ServerAnswers : AnalysisArrives(e, a)
                                  \/ AnalysisFails(e))
  /\ WF_vars(DetailTimer)
  /\ WF_vars(HandleMessage)

(* ------------------ the extension's storage, call by call -------------- *)
\* chrome.storage answers a get and applies a set some time after the call,
\* and calls back some time after that: one action for each.

\* the analyses that arrive: two without a jobId, one with the id of a card
TaskData ==
  {a \in ServerAnswers : a.risk # 6500}
  \cup {[risk |-> 6500, confidence |-> 80, flags |-> <<>>, jobId |-> CardWfh.id]}

\* a 'jobDetected' or 'analysisComplete' message reaches handleMessage, or
\* performAIAnalysis calls saveAnalysisResult: the first storage call is made
TaskStarts(t, kind, data) ==
  /\ extension.tasks[t].pc = "idle"
  /\ IF t = 1 THEN TRUE ELSE extension.tasks[t - 1].pc # "idle"
  /\ extension' =
       [extension EXCEPT !.tasks[t] =
          [IdleTask EXCEPT !.kind = kind,
                           !.data = IF kind = "jobDetected" THEN None ELSE data,
                           !.pc = IF kind = "jobDetected" THEN "getStats"
                                  ELSE "getAnalyses"]]
  /\ UNCHANGED server

\* storage.local.get(["analyses"]) answers: the callback adds its entry to
\* what it read and calls set
GetAnalyses(t) ==
  LET task == extension.tasks[t]
      key == IF task.kind = "analysisComplete" THEN AnalysisKey(task.data, now)
             ELSE CardSenior.id
  IN /\ task.pc = "getAnalyses"
     /\ extension' =
          [extension EXCEPT
             !.tasks[t].key = key,
             !.tasks[t].analyses =
                IF task.kind = "analysisComplete"
                THEN saveAnalysis(extension.analyses, task.data, now)
                ELSE saveAnalysisResult(extension.analyses, key, task.data, now),
             !.tasks[t].pc = "setAnalyses"]
     /\ UNCHANGED server

\* storage.local.set({analyses}) is applied
SetAnalyses(t) ==
  LET task == extension.tasks[t]
  IN /\ task.pc = "setAnalyses"
     /\ extension' =
          [extension EXCEPT
             !.analyses = task.analyses,
             !.tasks[t].pc = IF task.kind = "analysisComplete" THEN "saved"
                             ELSE "done"]
     /\ UNCHANGED server

\* set calls back: saveAnalysis resolves and handleAnalysisComplete calls
\* getStats
AnalysisSaved(t) ==
  /\ extension.tasks[t].pc = "saved"
  /\ extension' = [extension EXCEPT !.tasks[t].pc = "getStats"]
  /\ UNCHANGED server

\* storage.local.get(["stats"]) answers: the handler changes the stats it
\* read and calls saveStats
GetStats(t) ==
  LET task == extension.tasks[t]
  IN /\ task.pc = "getStats"
     /\ extension' =
          [extension EXCEPT
             !.tasks[t].stats =
                IF task.kind = "jobDetected" THEN CountDetected(extension.stats)
                ELSE CountAnalysis(extension.stats, task.data),
             !.tasks[t].pc = "setStats"]
     /\ UNCHANGED server

\* storage.local.set({stats}) is applied and calls back: the rest of the
\* handler, with its notification of a high risk
SaveStats(t) ==
  LET task == extension.tasks[t]
  IN /\ task.pc = "setStats"
     /\ extension' =
          [extension EXCEPT
             !.stats = task.stats,
             !.notifications =
                IF task.kind = "analysisComplete" /\ task.data.risk > 8000
                THEN @ + 1 ELSE @,
             !.tasks[t].pc = "done"]
     /\ UNCHANGED server

\* the analyses stored before are one short of saveAnalysis's limit
InitStorage ==
  /\ now = 1
  /\ jobAnalyses = <<>>
  /\ redis = [k \in CacheKeys |-> NoEntry]
  /\ usage = [dailyAnalyses |-> 0, monthlyAnalyses |-> 0]
  /\ pc = [r \in Reqs |-> "idle"]
  /\ job = [r \in Reqs |-> None]
  /\ sub = [r \in Reqs |-> NoSub]
  /\ analysis = [r \in Reqs |-> None]
  /\ response = [r \in Reqs |-> None]
  /\ trace = [r \in Reqs |-> NoTrace]
  /\ extension =
       [Installed EXCEPT !.analyses =
          [i \in 1..(AnalysesLimit - 1) |->
             [key |-> "old_" \o ToString(i), risk |-> 0, timestamp |-> 0]]]

NextStorage ==
  \/ \E t \in Tasks, data \in TaskData,
          kind \in {"jobDetected", "analysisComplete", "saveAnalysisResult"} :
       TaskStarts(t, kind, data)
  \/ \E t \in Tasks : GetAnalyses(t)
  \/ \E t \in Tasks : SetAnalyses(t)
  \/ \E t \in Tasks : AnalysisSaved(t)
  \/ \E t \in Tasks : GetStats(t)
  \/ \E t \in Tasks : SaveStats(t)

StorageSpec == InitStorage /\ [][NextStorage]_vars

(* --------------------- the side panel (popup.js) ----------------------- *)
\* scanCurrentPage is called: it returns at once while a scan is running,
\* and otherwise runs up to its tabs.query
ScanCurrentPage ==
  /\ extension.panel.calls < MaxClicks
  /\ extension' =
       [extension EXCEPT !.panel =
          IF @.isScanning THEN [@ EXCEPT !.calls = @ + 1]
          ELSE [@ EXCEPT !.calls = @ + 1, !.isScanning = TRUE,
                         !.scanBtnDisabled = TRUE, !.pc = "query"]]
  /\ UNCHANGED server

\* chrome.tabs.query settles: with the active tab 'rescan' is sent, without
\* one or with a rejection the scan throws
TabQuerySettles(outcome) ==
  /\ extension.panel.pc = "query"
  /\ extension' =
       [extension EXCEPT !.panel =
          IF outcome = "tab"
          THEN [@ EXCEPT !.rescans = @ + 1, !.pc = "send"]
          ELSE Finally(addActivityItem(@, "warning"))]
  /\ UNCHANGED server

\* chrome.tabs.sendMessage settles: answered by the content script, the scan
\* goes on to its two seconds of waiting; rejected, it throws
SendMessageSettles(answered) ==
  /\ extension.panel.pc = "send"
  /\ extension' =
       [extension EXCEPT !.panel =
          IF answered
          THEN [addActivityItem(@, "scanning") EXCEPT !.pc = "wait"]
          ELSE Finally(addActivityItem(@, "warning"))]
  /\ UNCHANGED server

\* the timer of the simulated progress fires: the scan completes
ProgressTimer ==
  /\ extension.panel.pc = "wait"
  /\ extension' =
       [extension EXCEPT !.panel = Finally(addActivityItem(@, "safe"))]
  /\ UNCHANGED server

NextPanel ==
  \/ ScanCurrentPage
  \/ \E outcome \in {"tab", "none", "rejected"} : TabQuerySettles(outcome)
  \/ \E answered \in BOOLEAN : SendMessageSettles(answered)
  \/ ProgressTimer

PanelSpec == Init /\ [][NextPanel]_vars

\* the promises scanCurrentPage awaits settle
FairPanelSpec ==
  /\ PanelSpec
  /\ WF_vars(\/ \E outcome \in {"tab", "none", "rejected"} : TabQuerySettles(outcome)
             \/ \E answered \in BOOLEAN : SendMessageSettles(answered)
             \/ ProgressTimer)

(* ============================== claims ================================= *)
Done(r) == pc[r] = "done"
Ok(r) == Done(r) /\ response[r].status = 200

\* C1.  Two calls with the same fingerprint less than 24 hours apart return
\* identical results: the call that stored the entry and a later call that
\* is served that entry from the index (so within the window) have the same
\* response body, field for field.
C1_IdempotentWithinWindow ==
  \A r1 \in Reqs, r2 \in Reqs :
    ( /\ Ok(r1) /\ Ok(r2)
      /\ Fingerprint(job[r1]) = Fingerprint(job[r2])
      /\ trace[r1].indexWrites = 1
      /\ trace[r2].hit )
    => response[r2].body = response[r1].body

\* C3.  A call that finds only an entry older than 24 hours for its
\* fingerprint (and an available store) re-analyzes, persists the new result
\* under the fingerprint with the current timestamp, returns it, and does not
\* end in an error.
C3_ReanalysisAfterWindow ==
  \A r \in Reqs :
    (Done(r) /\ trace[r].stale /\ ~trace[r].indexDown)
    => /\ response[r].status = 200
       /\ response[r].body = analysis[r]
       /\ trace[r].analyzeJob = 1
       /\ \E i \in DocsOf(Fingerprint(job[r])) :
            /\ jobAnalyses[i].riskScore = analysis[r].risk
            /\ jobAnalyses[i].timestamp = analysis[r].timestamp

\* C4.  Two concurrent calls for one fingerprint that both observe a miss
\* (with an available store) both run the orchestrator, both have their
\* write accepted and both receive an AnalysisResult; neither ends in an error.
C4_RacingMissesBothSucceed ==
  \A r \in Reqs :
    (Done(r) /\ trace[r].racedMiss /\ ~trace[r].indexDown)
    => /\ response[r].status = 200
       /\ trace[r].analyzeJob = 1
       /\ trace[r].indexWrites = 1

\* C5.  When the Recent Analysis Index fails on the lookup or on the write,
\* the call is treated as a miss: the caller still receives the
\* orchestrator's AnalysisResult, not an error.
C5_IndexOutageStillAnswers ==
  \A r \in Reqs :
    (Done(r) /\ trace[r].indexDown)
    => /\ response[r].status = 200
       /\ trace[r].analyzeJob = 1
       /\ "risk" \in DOMAIN response[r].body

Scored(r) == pc[r] \in {"save", "done"} /\ "risk" \in DOMAIN analysis[r]

InUnit(x) == 0 <= x /\ x <= 100

\* C2.  Whatever the classifier answers, the result of analyzeJob has risk
\* in [0,1] and confidence in [0,1], and every sub-signal score and
\* confidence is in [0,1].
C2_ScoresInRange ==
  \A r \in Reqs :
    /\ Scored(r) =>
         /\ 0 <= analysis[r].risk /\ analysis[r].risk <= RiskCap
         /\ InUnit(analysis[r].confidence)
    /\ sub[r].ai = "done" =>
         /\ InUnit(sub[r].aiResult.riskScore)
         /\ InUnit(sub[r].aiResult.confidence)
    /\ sub[r].vc = "done" => InUnit(sub[r].company.confidence)
    /\ pc[r] = "analyzing" =>
         /\ InUnit(sub[r].text.score)
         /\ InUnit(sub[r].salary.confidence)

\* C6.  When a Verification Cache read or write fails for a non-empty
\* company name, verifyCompany still returns the verdict computed from the
\* name, with the fields and values of a cache miss.
C6_CacheFailureKeepsVerdict ==
  \A r \in Reqs :
    (sub[r].vc = "done" /\ trace[r].cacheDown)
    => sub[r].company = CompanyVerdict(job[r].company)

\* every flag generateFlags can build for the external classifier
ExternalFlags ==
  {AIFlag(performAIAnalysis(c).reasoning) : c \in AllCompletions}

\* C7.  When the classifier call fails, analyzeJob still returns a
\* well-formed result in which the external term adds 0 to risk and flags
\* holds no external-classifier ("IA:") entry.
C7_FailedClassifierLeavesNoFlag ==
  \A r \in Reqs :
    (Scored(r) /\ trace[r].aiFailed)
    => /\ analysis[r].risk =
            Min(analysis[r].aiAnalysis.textScore * WeightText
                + (IF analysis[r].aiAnalysis.companyVerified THEN 0
                   ELSE CompanyPenalty * WeightCompany)
                + (IF analysis[r].aiAnalysis.salaryRealistic THEN 0
                   ELSE SalaryPenalty * WeightSalary),
                RiskCap)
       /\ \A i \in DOMAIN analysis[r].flags : analysis[r].flags[i] \notin ExternalFlags

\* C8.  Every call to analyzeJob completes, even when the classification
\* service never answers: the join over the four analyses is always reached.
C8_AnalyzeJobCompletes ==
  \A r \in Reqs : (pc[r] = "analyzing") ~> (pc[r] # "analyzing")

\* a step of analyzeJob's try block threw after the join: the four analyses
\* were fulfilled and generateFlags could not convert the reasoning
Threw(r) ==
  /\ pc[r] = "save" /\ sub[r].ai = "done"
  /\ "reasoning" \in DOMAIN sub[r].aiResult
  /\ ToStringThrows(sub[r].aiResult.reasoning)

C10_HitSkipsOrchestrator ==
  /\ [](\A r \in Reqs :
          trace[r].hit =>
            /\ Ok(r)
            /\ trace[r].analyzeJob = 0 /\ trace[r].analyzers = 0
            /\ trace[r].aiCalls = 0
            /\ trace[r].cacheReads = 0 /\ trace[r].cacheWrites = 0
            /\ trace[r].indexWrites = 0)
  /\ [][\A r \in Reqs :
          (~trace[r].hit /\ trace'[r].hit) =>
            /\ jobAnalyses' = jobAnalyses
            /\ redis' = redis
            /\ sub' = sub]_vars

\* a request was served an entry stored 13 hours earlier
C10_Witness ==
  \E r \in Reqs :
    /\ Ok(r) /\ trace[r].hit
    /\ response[r].body.timestamp < now

\* C11.  Whatever analyze and report requests have run, in whatever
\* interleaving, the Recent Analysis Index holds at most one entry per
\* fingerprint with a timestamp in the last 24 hours.
C11_OneRecentEntryPerFingerprint ==
  \A i \in 1..Len(jobAnalyses) :
    Cardinality(RecentDocs(jobAnalyses[i].jobId, now)) <= 1

\* a report was counted on the recent entry of a fingerprint for which a
\* second analysis, racing the first, tried to store its own entry
C11_Witness ==
  \E r \in Reqs :
    /\ Done(r) /\ trace[r].racedMiss /\ trace[r].duplicateKey
    /\ \E i \in RecentDocs(Fingerprint(job[r]), now) : ReportsOf(jobAnalyses[i]) > 0

\* a document that an analysis stored, not one a report upserted
StoredByAnalysis(doc) == "riskScore" \in DOMAIN doc

\* C12.  Report requests do not influence analysis: an analyze call gets what
\* it would get had no report been processed.  A call served from the index
\* is served a result an analysis stored, with the report counters that
\* analysis stored; a call's write is refused only because of a document
\* an analysis stored; in particular a report for a never-analyzed
\* fingerprint does not make a later call skip the orchestrator.
C12_ReportsDoNotInfluenceAnalysis ==
  \A r \in Reqs :
    Done(r) =>
      /\ trace[r].hit =>
           /\ StoredByAnalysis(response[r].body)
           /\ response[r].body.userReports = [scamReports |-> 0, falsePositives |-> 0]
      /\ trace[r].duplicateKey =>
           \E i \in DocsOf(Fingerprint(job[r])) : StoredByAnalysis(jobAnalyses[i])

\* analyzeJob is about to return the result it scored from the four analyses
\* sub[r] holds
Returning(r) == pc[r] = "save" /\ "error" \notin DOMAIN analysis[r]

\* C13.  calculateCompositeRisk returns min(1, textScore*0.30 +
\* (companyVerified ? 0 : 0.4)*0.25 + (salaryRealistic ? 0 : 0.6)*0.20 +
\* externalRiskScore*0.25) for every combination of sub-signals: a function
\* of these four values and nothing else (risk in ten-thousandths, scores in
\* hundredths).
C13_CompositeRiskFormula ==
  \A r \in Reqs :
    Returning(r) =>
      LET textScore == sub[r].text.score
          companyTerm == IF sub[r].company.verified THEN 0 ELSE 40
          salaryTerm == IF sub[r].salary.realistic THEN 0 ELSE 60
          externalRiskScore == sub[r].aiResult.riskScore
          sum == textScore * 30 + companyTerm * 25 + salaryTerm * 20
                 + externalRiskScore * 25
      IN analysis[r].risk = IF sum > 10000 THEN 10000 ELSE sum

\* all four terms are non-zero and the sum is over the cap
C13_Witness ==
  \E r \in Reqs :
    /\ Returning(r)
    /\ sub[r].text.score > 0 /\ ~sub[r].company.verified
    /\ ~sub[r].salary.realistic /\ sub[r].aiResult.riskScore = 400
    /\ analysis[r].risk = 10000

\* C14.  The result's confidence is the confidence of the external
\* classifier's sub-signal whenever that sub-signal carries one (it always
\* does), and 0.8 only when it carries none: after an adapter failure
\* (sub-signal confidence 0) and after a classifier answer with confidence 0
\* the result's confidence is 0.
C14_ConfidenceIsTheClassifiers ==
  \A r \in Reqs :
    Returning(r) =>
      IF "confidence" \in DOMAIN sub[r].aiResult
      THEN analysis[r].confidence = sub[r].aiResult.confidence
      ELSE analysis[r].confidence = 80

\* C15.  generateFlags returns exactly these entries, in this order: every
\* evidence string of the pattern analyzer in its order; the generic-company
\* flag iff isGeneric; the not-verified flag iff not verified; the salary
\* flag with its reason iff not realistic; the external flag iff the
\* external reasoning is non-empty.
C15_FlagsInAnalyzerOrder ==
  \A r \in Reqs :
    Returning(r) =>
      LET company == sub[r].company
          salary == sub[r].salary
          reasoning == sub[r].aiResult.reasoning
          candidates ==
            << [raised |-> "isGeneric" \in DOMAIN company /\ company.isGeneric,
                flag |-> "Nombre de empresa generico o sospechoso"],
               [raised |-> ~company.verified,
                flag |-> "Empresa no verificada en bases de datos"],
               [raised |-> ~salary.realistic,
                flag |-> IF "reason" \in DOMAIN salary
                         THEN "Salario irrealista: " \o salary.reason
                         ELSE "Salario irrealista: fuera de rango esperado"],
               [raised |-> reasoning # "", flag |-> "IA: " \o reasoning] >>
          raisedFlags == SelectSeq(candidates, LAMBDA c : c.raised)
      IN analysis[r].flags =
           sub[r].text.matchedPatterns
           \o [i \in 1..Len(raisedFlags) |-> raisedFlags[i].flag]

\* a result with a flag of each of the five kinds
C15_Witness ==
  \E r \in Reqs :
    /\ Returning(r)
    /\ sub[r].text.matchedPatterns # <<>>
    /\ "isGeneric" \in DOMAIN sub[r].company /\ sub[r].company.isGeneric
    /\ ~sub[r].company.verified /\ ~sub[r].salary.realistic
    /\ sub[r].aiResult.reasoning # ""
    /\ Len(analysis[r].flags) = Len(sub[r].text.matchedPatterns) + 4

\* request r got the fail-safe result of analyzeJob's catch and stored it
StoredFailSafe(r) ==
  Ok(r) /\ trace[r].indexWrites = 1 /\ "error" \in DOMAIN analysis[r]

C17_DefectGivesFailSafe ==
  \A r \in Reqs :
    Threw(r) =>
      /\ DOMAIN analysis[r] = {"risk", "confidence", "flags", "error"}
      /\ analysis[r].risk = 0
      /\ analysis[r].confidence = 0
      /\ analysis[r].flags = <<"Error en analisis">>
      /\ analysis[r].error = "TypeError: Cannot convert object to primitive value"

\* the throw came for a posting whose analyses had found evidence
C17_Witness ==
  \E r \in Reqs :
    /\ Threw(r)
    /\ sub[r].text.matchedPatterns # <<>> /\ ~sub[r].company.verified

\* C18.  verifyCompany called with an empty or absent company name returns
\* verified = false and confidence = 0 at once and performs no Verification
\* Cache read and no Verification Cache write: while only such calls run,
\* the cache does not change.
C18_NoNameNoCache ==
  /\ [](\A r \in Reqs :
          ( /\ pc[r] \in {"analyzing", "save", "done"}
            /\ job[r] # NoJob /\ job[r].company = "" )
          => /\ trace[r].cacheReads = 0 /\ trace[r].cacheWrites = 0
             /\ trace[r].lookup = "none" /\ trace[r].verdicts = 0
             /\ pc[r] \in {"analyzing", "save"} =>
                  /\ sub[r].vc = "done"
                  /\ sub[r].company = [verified |-> FALSE, confidence |-> 0])
  /\ [][(\A r \in Reqs : (pc'[r] # "idle" /\ job'[r] # NoJob) => job'[r].company = "")
        => redis' = redis]_vars

\* verifyCompany has returned for a posting without a company while the
\* classifier is still to answer, with verdicts of other names in the cache
C18_Witness ==
  \E r \in Reqs :
    /\ pc[r] = "analyzing" /\ job[r].company = ""
    /\ sub[r].vc = "done" /\ sub[r].ai = "wait"
    /\ \E k \in DOMAIN redis : redis[k].present

\* C19.  The Verification Cache is read-through.  A verifyCompany call for
\* a non-empty name that misses the cache computes the verdict exactly once
\* and issues exactly one cache write, which stores the verdict with a
\* 24-hour expiry; a call that hits an unexpired entry computes nothing,
\* writes nothing and returns the stored value.
C19_CacheIsReadThrough ==
  /\ [](\A r \in Reqs :
          (sub[r].vc = "done" /\ job[r].company # "") =>
            /\ trace[r].cacheReads = 1
            /\ trace[r].lookup = "miss" =>
                 trace[r].verdicts = 1 /\ trace[r].cacheWrites = 1
            /\ trace[r].lookup = "hit" =>
                 /\ trace[r].verdicts = 0 /\ trace[r].cacheWrites = 0
                 /\ sub[r].company = JSONParse(redis[CacheKey(job[r].company)].value))
  /\ [][\A r \in Reqs :
          /\ (trace[r].lookup = "none" /\ trace'[r].lookup = "hit")
             => /\ redis[CacheKey(job[r].company)].present
                /\ now < redis[CacheKey(job[r].company)].expiresAt
                /\ redis' = redis
          /\ (trace'[r].cacheWrites = trace[r].cacheWrites + 1 /\ ~trace'[r].cacheDown)
             => redis' = [redis EXCEPT ![CacheKey(job[r].company)] =
                            [present |-> TRUE,
                             value |-> JSONStringify(CompanyVerdict(job[r].company)),
                             expiresAt |-> now + 24]]]_vars

\* a call found the entry of an earlier call expired, computed the verdict
\* and wrote it again
C19_Witness ==
  \E r \in Reqs :
    /\ sub[r].vc = "done" /\ trace[r].lookup = "miss" /\ ~trace[r].cacheDown
    /\ redis[CacheKey(job[r].company)].present
    /\ redis[CacheKey(job[r].company)].expiresAt > 24

\* C20.  Under every interleaving of concurrent verifyCompany calls, for the
\* same name or for different names, each Verification Cache entry stored
\* under a company's key equals the deterministic verdict of that name; so
\* verifyCompany returns the same value on a cache hit as on a cache miss.
C20_CacheEntryIsTheVerdict ==
  /\ \A j \in ValidJobs :
       (j.company # "" /\ redis[CacheKey(j.company)].present)
       => JSONParse(redis[CacheKey(j.company)].value) = CompanyVerdict(j.company)
  /\ \A r \in Reqs :
       (sub[r].vc = "done" /\ trace[r].lookup \in {"hit", "miss"} /\ ~trace[r].cacheDown)
       => sub[r].company = CompanyVerdict(job[r].company)

\* two calls for one name both missed, both computed and both wrote: the
\* entry is the second write's
C20_Witness ==
  \E r1 \in Reqs, r2 \in Reqs :
    /\ r1 # r2 /\ sub[r1].vc = "done" /\ sub[r2].vc = "done"
    /\ job[r1].company = job[r2].company
    /\ trace[r1].lookup = "miss" /\ ~trace[r1].cacheDown
    /\ trace[r2].lookup = "miss" /\ ~trace[r2].cacheDown
    /\ redis[CacheKey(job[r1].company)].present

\* verifyCompany computed the verdict of request r's company itself and no
\* cache call failed
Computed(r) ==
  /\ sub[r].vc \in {"set", "done"}
  /\ trace[r].lookup = "miss" /\ ~trace[r].cacheDown

\* C21.  On a cache miss for a non-empty name verifyCompany returns
\* verified = (not isGeneric and hasLegitIndicators), confidence = 0.7 with
\* a legitimacy indicator and 0.3 without, and isGeneric: a generic name is
\* never verified, not even 'Hiring Now LLC' with its indicator.
C21_VerdictOfTheName ==
  \A r \in Reqs :
    Computed(r) =>
      LET name == job[r].company
          verdict == sub[r].company
      IN /\ DOMAIN verdict = {"verified", "confidence", "isGeneric"}
         /\ verdict.verified <=>
              (~isGenericCompanyName(name) /\ hasLegitIndicators(name))
         /\ verdict.confidence = IF hasLegitIndicators(name) THEN 70 ELSE 30
         /\ verdict.isGeneric <=> isGenericCompanyName(name)
         /\ verdict.isGeneric => ~verdict.verified
         /\ name = "Hiring Now LLC" =>
              verdict = [verified |-> FALSE, confidence |-> 70, isGeneric |-> TRUE]

\* the verdict of 'Hiring Now LLC' was computed and stored
C21_Witness ==
  \E r \in Reqs :
    /\ Computed(r) /\ sub[r].vc = "done"
    /\ job[r].company = "Hiring Now LLC"
    /\ sub[r].company.isGeneric /\ ~sub[r].company.verified

\* the analyses of request r's posting are in sub[r]
Analyzed(r) == pc[r] \in {"analyzing", "save"} /\ "text" \in DOMAIN sub[r]

\* C22.  analyzeJobText returns score = min(1, 0.3 * (number of matching
\* scam patterns) + (0.2 if more than 2 urgency-word occurrences) + (0.15 if
\* more than 3 grammar-error occurrences)), and matchedPatterns holds one
\* index-labelled entry per matching pattern in pattern-list order, then the
\* urgency flag iff occurrences > 2, then the grammar flag iff occurrences > 3.
C22_TextScoreAndEvidence ==
  \A r \in Reqs :
    Analyzed(r) =>
      LET hits == SuspiciousPatternHits(job[r])
          n == Len(hits)
          urgent == UrgencyMatches(job[r]) > 2
          sloppy == detectGrammarIssues(job[r]) > 3
          sum == 30 * n + (IF urgent THEN 20 ELSE 0) + (IF sloppy THEN 15 ELSE 0)
          evidence == sub[r].text.matchedPatterns
      IN /\ sub[r].text.score = IF sum > 100 THEN 100 ELSE sum
         /\ Len(evidence) = n + (IF urgent THEN 1 ELSE 0) + (IF sloppy THEN 1 ELSE 0)
         /\ \A i \in 1..n :
              /\ evidence[i] = PatternLabel(hits[i])
              /\ i < n => hits[i] < hits[i + 1]
         /\ urgent => evidence[n + 1] = "Urgencia artificial excesiva"
         /\ sloppy => evidence[Len(evidence)] = "Multiples errores gramaticales"

\* four patterns match: the sum 1.2 is cut to 1
C22_Witness ==
  \E r \in Reqs :
    /\ Analyzed(r)
    /\ Len(SuspiciousPatternHits(job[r])) = 4
    /\ sub[r].text.score = 100
    /\ Len(sub[r].text.matchedPatterns) = 4

C24_WorkFromHomeIsHighRisk ==
  \A r \in Reqs :
    (Returning(r) /\ job[r] = JobWfhHourly /\ ~trace[r].cacheDown)
    => analysis[r].risk > 5000

\* C25.  For a posting whose text matches a scam pattern and holds the
\* wording 'urgent, immediate start' (two urgency words), as the
\* work-from-home posting does, the pattern analyzer yields score >= 0.3 and
\* its evidence includes the excessive-artificial-urgency flag.
C25_UrgentWordingIsFlagged ==
  \A r \in Reqs :
    ( /\ Analyzed(r)
      /\ SuspiciousPatternHits(job[r]) # <<>>
      /\ job[r].description = "urgent, immediate start" )
    => /\ sub[r].text.score >= 30
       /\ \E i \in DOMAIN sub[r].text.matchedPatterns :
            sub[r].text.matchedPatterns[i] = "Urgencia artificial excesiva"

\* C26.  Whenever the company is verified, the salary is realistic and the
\* text score is 0, the composite risk analyzeJob returns is below 0.3, for
\* every external risk score in [0,1] (the 'Senior Software Engineer' at
\* 'Acme Corp.' posting).
C26_CleanPostingIsLowRisk ==
  \A r \in Reqs :
    ( /\ Returning(r)
      /\ sub[r].company.verified /\ sub[r].salary.realistic
      /\ sub[r].text.score = 0
      /\ 0 <= sub[r].aiResult.riskScore /\ sub[r].aiResult.riskScore <= 100 )
    => analysis[r].risk < 3000

\* the senior engineer's posting with an external risk score of 1
C26_Witness ==
  \E r \in Reqs :
    /\ Returning(r) /\ job[r] = JobSenior
    /\ sub[r].company.verified /\ sub[r].salary.realistic
    /\ sub[r].text.score = 0 /\ sub[r].aiResult.riskScore = 100
    /\ analysis[r].risk = 2500

\* request r's body has no job, or a job without title or description
Rejectable(j) ==
  IF j = NoJob THEN TRUE
  ELSE IF j = None THEN FALSE
  ELSE j.title = "" \/ j.description = ""

\* C27.  An analyze request whose job is missing, or lacks a title or a
\* description, is rejected with an input error before the pipeline: no
\* analyzer runs, the Recent Analysis Index is neither read nor written, and
\* the user's usage counters are unchanged.
C27_IncompleteJobIsRejected ==
  /\ [](\A r \in Reqs :
          (pc[r] # "idle" /\ Rejectable(job[r])) =>
            /\ Done(r) /\ response[r].status = 400
            /\ trace[r] = NoTrace
            /\ sub[r] = NoSub /\ analysis[r] = None)
  /\ [][\A r \in Reqs :
          (pc[r] = "idle" /\ pc'[r] # "idle" /\ Rejectable(job'[r])) =>
            /\ usage' = usage
            /\ jobAnalyses' = jobAnalyses
            /\ redis' = redis]_vars

\* a body without job was answered 400 while the usage counters stand at 0
C27_Witness ==
  \E r \in Reqs :
    /\ Done(r) /\ job[r] = NoJob /\ response[r].status = 400
    /\ usage.dailyAnalyses = 0

\* what analyzeJob computes from the analyses: the result without its
\* creation instant
Scores(a) ==
  [risk |-> a.risk, confidence |-> a.confidence, flags |-> a.flags,
   aiAnalysis |-> a.aiAnalysis]

\* C28.  The composite scorer and the flag generation run only after all
\* four analyses (text, company, salary, external) have completed, and the
\* AnalysisResult (risk, confidence, flags, sub-scores) is the same for
\* every order in which they complete: two calls whose four analyses gave
\* the same values return the same result, whichever analysis was last.
C28_JoinIsOrderIndependent ==
  /\ \A r \in Reqs :
       /\ pc[r] = "analyzing" => analysis[r] = None
       /\ Returning(r) =>
            /\ sub[r].vc = "done" /\ sub[r].ai = "done"
            /\ sub[r].last \in {"company", "classifier"}
  /\ \A r1 \in Reqs, r2 \in Reqs :
       ( /\ Returning(r1) /\ Returning(r2)
         /\ sub[r1].text = sub[r2].text /\ sub[r1].salary = sub[r2].salary
         /\ sub[r1].company = sub[r2].company
         /\ sub[r1].aiResult = sub[r2].aiResult )
       => Scores(analysis[r1]) = Scores(analysis[r2])

\* two calls for one posting are returning: in one verifyCompany settled
\* last, in the other the classifier
C28_Witness ==
  \E r1 \in Reqs, r2 \in Reqs :
    /\ Returning(r1) /\ Returning(r2)
    /\ job[r1] = job[r2]
    /\ sub[r1].company = sub[r2].company /\ sub[r1].aiResult = sub[r2].aiResult
    /\ sub[r1].last = "company" /\ sub[r2].last = "classifier"

\* the four tiers of salaryRanges
Tiers == {"senior", "entry-level", "executive", "mid-level"}

\* level is the tier the stated precedence gives a title
ByPrecedence(title, level) ==
  /\ SeniorKeyword(title) => level = "senior"
  /\ (~SeniorKeyword(title) /\ EntryKeyword(title)) => level = "entry-level"
  /\ (~SeniorKeyword(title) /\ ~EntryKeyword(title) /\ ExecutiveKeyword(title))
       => level = "executive"
  /\ (~SeniorKeyword(title) /\ ~EntryKeyword(title) /\ ~ExecutiveKeyword(title))
       => level = "mid-level"

\* C29.  determineJobLevel resolves a title that matches several keyword
\* sets by a fixed precedence: senior if it has a senior keyword (whatever
\* else it has, as 'Executive Director'), otherwise entry-level if it has
\* an entry keyword, otherwise executive if it has an executive keyword,
\* otherwise mid-level.  Exactly one tier is returned for every title, and
\* it is the tier the salary of the posting was judged against.
C29_TierByPrecedence ==
  \A r \in Reqs :
    Analyzed(r) =>
      LET title == job[r].title
          tier == CHOOSE l \in Tiers : ByPrecedence(title, l)
          figure == SetMax(SalaryNumbers(job[r].salary))
          hourly == IsHourly(job[r].salary)
      IN /\ determineJobLevel(title) \in Tiers
         /\ ByPrecedence(title, determineJobLevel(title))
         /\ \A l \in Tiers : ByPrecedence(title, l) => l = tier
         /\ title = "Executive Director" => determineJobLevel(title) = "senior"
         /\ SalaryNumbers(job[r].salary) # {} =>
              ( sub[r].salary.realistic
                  <=> ~ \/ hourly /\ figure > 100 /\ tier = "entry-level"
                        \/ ~hourly /\ figure > 2 * salaryRangeMax(tier) )

\* 'Executive Director', a title with a senior and an executive keyword, has
\* been analysed, and its salary, within twice the executive range, was
\* found excessive
C29_Witness ==
  \E r \in Reqs :
    /\ Analyzed(r)
    /\ job[r].title = "Executive Director"
    /\ SeniorKeyword(job[r].title) /\ ExecutiveKeyword(job[r].title)
    /\ SetMax(SalaryNumbers(job[r].salary)) <= 2 * salaryRangeMax("executive")
    /\ ~sub[r].salary.realistic

\* the scans whose server analysis has completed
ScansCompleted ==
  Cardinality({e \in Elements :
                 /\ extension.scan[e].pc = "done"
                 /\ extension.scan[e].analysis \in ServerAnswers})

\* C30.  When the server analysis of a scanned job completes, the content
\* script tells the background script ('analysisComplete'), so that every
\* completed scan is eventually counted: once n scans have completed,
\* stats.jobsScanned reaches n.
C30_CompletedScanIsCounted ==
  \A n \in 1..NumElements :
    (ScansCompleted >= n) ~> (extension.stats.jobsScanned >= n)

\* the daily limit of a plan that has one
DailyLimit(plan) == IF plan = "free" THEN DailyLimitFree ELSE DailyLimitPro

\* C31.  Under any interleaving of concurrent analyze requests by one user,
\* usage.dailyAnalyses never exceeds the daily limit of the user's plan (50
\* for free, 1000 for pro).
C31_DailyLimitIsNeverExceeded ==
  usage.plan \in {"free", "pro"} => usage.dailyAnalyses <= DailyLimit(usage.plan)

\* request r was turned away by the limit check
OverLimit(r) == pc[r] = "done" /\ response[r].status = 429

\* C32.  usage.dailyAnalyses never decreases, so once a request of the user
\* has been rejected with 429, every request authenticated later, on any
\* route, is turned away by the middleware as well (with 429, or with 500
\* when the lookup of the user fails).
C32_OnceOverLimitAlwaysRejected ==
  [][ /\ usage'.dailyAnalyses >= usage.dailyAnalyses
      /\ \A r \in Reqs :
           ( /\ \E q \in Reqs : OverLimit(q)
             /\ pc[r] = "idle" /\ pc'[r] # "idle" )
           => /\ pc'[r] = "done"
              /\ response'[r].status \in {429, 500}
              /\ usage' = usage ]_vars

\* after admitted analyses have raised the count, a request was rejected
\* with 429, and so was a later one on another route
C32_Witness ==
  \E q \in Reqs, r \in Reqs :
    /\ q < r
    /\ OverLimit(q) /\ OverLimit(r)
    /\ trace[q].route # trace[r].route
    /\ trace[r].user.dailyAnalyses >= DailyLimit(usage.plan)

\* C33.  If the external classifier's riskScore lies in [0,1], the composite
\* risk produced by analyzeJob never exceeds 0.77 (0.30 + 0.4*0.25 +
\* 0.6*0.20 + 0.25), so such a result does not meet the background script's
\* condition for a high-risk notification, risk > 0.8.
C33_CompositeRiskAtMost077 ==
  \A r \in Reqs :
    ( /\ Returning(r)
      /\ 0 <= sub[r].aiResult.riskScore /\ sub[r].aiResult.riskScore <= 100 )
    => /\ analysis[r].risk <= 7700
       /\ 30 * 100 + 40 * 25 + 60 * 20 + 100 * 25 = 7700
       /\ handleAnalysisComplete(Installed, analysis[r]).notifications = 0

\* a posting with every signal at its worst and a riskScore of 1 has been
\* scored: 0.77
C33_Witness ==
  \E r \in Reqs :
    /\ Returning(r)
    /\ sub[r].text.score = 100
    /\ ~sub[r].company.verified /\ ~sub[r].salary.realistic
    /\ sub[r].aiResult.riskScore = 100
    /\ analysis[r].risk = 7700

\* C34.  Within one ScamShieldDetector instance each job id is analyzed at
\* most once: once scanJobElement has started for an id, a later scan of a
\* card with that id makes no local analysis and no call to the server, even
\* if the first server analysis failed.
C34_EachIdAnalyzedOnce ==
  /\ [](\A id \in CardIds :
          /\ extension.localRuns[id] <= 1
          /\ extension.serverCalls[id] <= 1
          /\ (id \in extension.scannedJobs) <=> (extension.serverCalls[id] = 1))
  /\ [][\A e \in Elements :
          ( /\ Card(e).id \in extension.scannedJobs
            /\ extension'.scan[e].calls = extension.scan[e].calls + 1 )
          => /\ extension'.localRuns = extension.localRuns
             /\ extension'.serverCalls = extension.serverCalls
             /\ extension'.scan[e].pc = extension.scan[e].pc
             /\ extension'.badge = extension.badge]_vars

\* a card whose server analysis failed has been scanned a second time, and
\* its id has had one call to the server
C34_Witness ==
  \E e \in Elements :
    /\ extension.scan[e].calls = 2
    /\ extension.scan[e].pc = "done"
    /\ extension.scan[e].analysis = FetchFailed
    /\ extension.serverCalls[Card(e).id] = 1
    /\ extension.localRuns[Card(e).id] = 1

\* C35.  A job element carries at most one warning badge, and it carries one
\* only if the local analysis gave risk > 0: the server result updates an
\* existing badge and never creates one, so a job rated 0 locally shows no
\* badge whatever risk the server returns.
C35_BadgeOnlyFromLocalRisk ==
  /\ [](\A e \in Elements :
          /\ Len(extension.badge[e]) <= 1
          /\ extension.badge[e] # <<>> =>
               /\ extension.scan[e].pc # "idle"
               /\ performLocalAnalysis(Card(e)).risk > 0)
  /\ [][\A e \in Elements :
          (extension.scan[e].pc = "fetching" /\ extension'.scan[e].pc = "done")
          => Len(extension'.badge[e]) = Len(extension.badge[e])]_vars

\* a card rated 0 locally has the server's highest risk and no badge, while
\* a card rated above 0 has its one badge
C35_Witness ==
  \E e \in Elements, f \in Elements :
    /\ performLocalAnalysis(Card(e)).risk = 0
    /\ extension.scan[e].pc = "done"
    /\ extension.scan[e].analysis.risk = 10000
    /\ extension.badge[e] = <<>>
    /\ performLocalAnalysis(Card(f)).risk > 0
    /\ extension.scan[f].pc = "done"
    /\ Len(extension.badge[f]) = 1

\* the messages of a kind whose handler has finished
Handled(kind) ==
  Cardinality({t \in Tasks :
                 extension.tasks[t].kind = kind /\ extension.tasks[t].pc = "done"})

\* C36.  In every state of the stored stats reachable by an interleaving of
\* handleJobDetected and handleAnalysisComplete, scamsBlocked <= jobsScanned
\* and timeSaved = 5 * scamsBlocked, and no counter ever decreases.
C36_StatsConsistentAndMonotone ==
  /\ [](/\ extension.stats.scamsBlocked <= extension.stats.jobsScanned
        /\ extension.stats.timeSaved = 5 * extension.stats.scamsBlocked)
  /\ [][/\ extension'.stats.scamsBlocked >= extension.stats.scamsBlocked
        /\ extension'.stats.jobsScanned >= extension.stats.jobsScanned
        /\ extension'.stats.timeSaved >= extension.stats.timeSaved
        /\ extension'.stats.jobsDetected >= extension.stats.jobsDetected]_vars

\* C37.  No stats update is lost: once all message handlers have finished,
\* stats.jobsScanned is the number of 'analysisComplete' messages handled
\* and stats.jobsDetected the number of 'jobDetected' messages handled.
C37_NoStatsUpdateIsLost ==
  (\A t \in Tasks : extension.tasks[t].pc \in {"idle", "done"})
  => /\ extension.stats.jobsScanned = Handled("analysisComplete")
     /\ extension.stats.jobsDetected = Handled("jobDetected")

\* C38.  When a saveAnalysis call of the background script completes, the
\* stored 'analyses' object has the analysis just saved and at most 100
\* entries, whatever other saveAnalysis calls and saveAnalysisResult calls
\* of the content script do in between.
C38_SavedAnalysisIsStored ==
  [][\A t \in Tasks :
       (extension.tasks[t].pc = "saved" /\ extension'.tasks[t].pc = "getStats")
       => /\ extension.tasks[t].key \in Keys(extension.analyses)
          /\ Len(extension.analyses) <= AnalysesLimit]_vars

\* C39.  The side panel runs at most one manual scan at a time: while
\* isScanning is true scanCurrentPage returns at once and sends no 'rescan';
\* and every scan that starts eventually sets isScanning to false again and
\* enables the scan button again, whether it succeeds or throws (no active
\* tab, a message that fails).
C39_OneScanAndItEnds ==
  /\ [](extension.panel.isScanning <=> extension.panel.pc # "idle")
  /\ [][(extension.panel.isScanning /\ extension'.panel.calls # extension.panel.calls)
        => /\ extension'.panel.rescans = extension.panel.rescans
           /\ extension'.panel.pc = extension.panel.pc
           /\ extension'.panel.isScanning]_vars
  /\ extension.panel.isScanning
       ~> (~extension.panel.isScanning /\ ~extension.panel.scanBtnDisabled)

\* a call was turned away while a scan was running, that scan found no tab
\* or its message failed, and the flag and the button are reset
C39_Witness ==
  /\ extension.panel.calls = 2
  /\ extension.panel.rescans <= 1
  /\ extension.panel.activityFeed # <<>>
  /\ extension.panel.activityFeed[1] = "warning"
  /\ Len(extension.panel.activityFeed) = 1
  /\ ~extension.panel.isScanning /\ ~extension.panel.scanBtnDisabled

====
